---- MODULE Spec2Model ----
(***************************************************************************)
(* Signal scoring -> wedge detection -> playbook synthesis pipeline of the *)
(* GTM contact-intelligence service, over the relational store it reads.   *)
(*                                                                         *)
(* Numbers.  Scores are DECIMAL(3,2) columns; they are held here as whole  *)
(* hundredths (0.50 is 50).  A composite score is held in thousandths      *)
(* (0.4*r + 0.3*u + 0.3*w is 4*r + 3*u + 3*w).  Wedge scores are held in   *)
(* hundredths (0.95 + 0.15 is 110).  Timestamps are held in ticks of half  *)
(* a day, so that the floor of getDaysSince has something to round; the    *)
(* epoch (tick 0) is where the model starts its clock, earlier instants    *)
(* are negative.                                                           *)
(***************************************************************************)
EXTENDS Integers, Sequences, FiniteSets, Bags, TLC

VARIABLES
    contacts,              \* table contacts: the set of ids that exist
    intelligence_signals,  \* table intelligence_signals: a bag of rows
    linkedin_activity,     \* table linkedin_activity (profile rows), UNIQUE(contact_id)
    linkedin_posts,        \* table linkedin_posts: a bag of rows
    github_activity,       \* table github_activity, UNIQUE(contact_id)
    gtm_playbooks,         \* table gtm_playbooks: a bag of rows
    now,                   \* the clock, Date.now() / NOW(), in ticks
    ret,                   \* the pipeline call made last since the store last changed:
                           \* what it read and what it returned
    calls,                 \* generatePlaybook calls past their reads, before the save
    successes,             \* per contact, how many generatePlaybook calls returned
                           \* success:true
    linkedin_scrape_queue, \* table linkedin_scrape_queue: linkedin_url -> row
    workers,               \* per automation process, the queue item it is processing
    rowLocks,              \* per locked row of linkedin_scrape_queue, the statement
                           \* that holds its row lock
    circuitBreaker,        \* FirecrawlClient.circuitBreaker.linkedin
    inflight,              \* LinkedIn scrape requests sent and not yet answered
    clock,                 \* Date.now() of the scraper process, in breaker ticks
    linkedinLimiter,       \* FirecrawlClient.linkedinLimiter: tokens, queue, and the
                           \* time since lastRefill
    timeouts,              \* the setTimeout callbacks of the scraper that are pending
    requestLog,            \* how long ago each LinkedIn request of the last minute
                           \* was sent
    arrived,               \* how many scrapeUrl calls were made for LinkedIn
    elapsed,               \* the time since the scraper was constructed, for as long
                           \* as calls arrive
    waiting,               \* per platform, the scrapeUrl calls past the breaker check
                           \* and before their request
    research_jobs,         \* table research_jobs: id -> row
    performing             \* per research job, where its performResearch is

\* A table is a bag of rows: the serial id column, which no query of the
\* pipeline reads or orders by, is left out, and SQL gives rows no other order.

vars == <<contacts, intelligence_signals, linkedin_activity, linkedin_posts,
          github_activity, gtm_playbooks, now, ret, calls, successes,
          linkedin_scrape_queue, workers, rowLocks, circuitBreaker, inflight, clock,
          linkedinLimiter, timeouts, requestLog, arrived, elapsed, waiting,
          research_jobs, performing>>

\* What the concurrent callers, the scrape queue and the scraper's circuit
\* breaker add to the pipeline's state.
callVars == <<calls, successes>>
queueVars == <<linkedin_scrape_queue, workers, rowLocks>>
breakerVars == <<circuitBreaker, inflight, clock>>
scrapeVars == <<linkedinLimiter, timeouts, requestLog, arrived, elapsed, waiting>>
jobVars == <<research_jobs, performing>>

stores == <<contacts, intelligence_signals, linkedin_activity, linkedin_posts,
            github_activity, gtm_playbooks>>

\* A nullable value (a column, a row that a query may not find, a field of a JS
\* object) is held as a set: empty when there is no value (SQL NULL, JS null or
\* undefined), and the singleton of the value otherwise.
NULL == {}
Some(v) == {v}
Val(o) == CHOOSE v \in o : TRUE
\* (x || 0) on a nullable number
OrZero(o) == IF o = NULL THEN 0 ELSE Val(o)

\* No pipeline call has returned since the store last changed.
NoCall == [op |-> "none"]

\* Contact ids a caller may name; an id is a contact only once it is in contacts.
ContactIds == {1, 2}

\* The automation processes that take items from the scrape queue.
Workers == {1, 2}

\* scrapeUrl(url, options, platform)
Platforms == {"linkedin", "general"}

\* config.rateLimits.linkedin.maxRequestsPerMin
maxRequestsPerMin == 10

(***************************************************************************)
(* Configuration (config/config.js, intelligence)                          *)
(***************************************************************************)
linkedinRelevanceBoost == 30
minSignalRelevanceScore == 50
topSignalsCount == 5

(***************************************************************************)
(* Helpers over sequences                                                  *)
(***************************************************************************)
Range(s) == {s[i] : i \in DOMAIN s}

Min(a, b) == IF a < b THEN a ELSE b

\* Array.prototype.slice(from, to) with 0 <= from, 0-based and end-exclusive.
Slice(s, from, to) == SubSeq(s, from + 1, Min(to, Len(s)))

\* Array.prototype.filter
Filter(s, Keep(_)) ==
    LET f[n \in 0..Len(s)] ==
            IF n = 0 THEN <<>>
            ELSE IF Keep(s[n]) THEN Append(f[n - 1], s[n]) ELSE f[n - 1]
    IN  f[Len(s)]

\* Array.prototype.map
Map(s, F(_)) == [i \in DOMAIN s |-> F(s[i])]

\* x put into a list that is already in non-increasing Key order: after every
\* element whose key is >= x's (so elements of equal key keep their order).
InsertDesc(x, s, Key(_)) ==
    LET before == {i \in DOMAIN s : \A j \in 1..i : Key(s[j]) >= Key(x)}
        k == Cardinality(before)
    IN  SubSeq(s, 1, k) \o <<x>> \o SubSeq(s, k + 1, Len(s))

\* Array.prototype.sort((a, b) => Key(b) - Key(a)): non-increasing by Key, and
\* stable (ECMAScript 2019), so elements of equal Key keep their input order.
SortDesc(s, Key(_)) ==
    LET f[n \in 0..Len(s)] ==
            IF n = 0 THEN <<>> ELSE InsertDesc(s[n], f[n - 1], Key)
    IN  f[Len(s)]

\* The orders in which a SELECT may return the rows of table t that satisfy
\* Where, given InOrder(a, b): "the ORDER BY admits row a before row b".  Rows
\* that the ORDER BY does not separate come back in an order the database chooses.
RowOrders(t, Where(_), InOrder(_, _)) ==
    LET rows == {r \in BagToSet(t) : Where(r)}
        n == BagCardinality([r \in rows |-> t[r]])
        prefixes[k \in 0..n] ==
            IF k = 0 THEN {<<>>}
            ELSE {Append(s, r) : <<s, r>> \in
                    {p \in prefixes[k - 1] \X rows :
                        /\ Cardinality({i \in DOMAIN p[1] : p[1][i] = p[2]}) < t[p[2]]
                        /\ \A i \in DOMAIN p[1] : InOrder(p[1][i], p[2])}}
    IN  prefixes[n]

Insert(t, row) == t (+) SetToBag({row})

(***************************************************************************)
(* db/queries.js: signalQueries                                            *)
(***************************************************************************)
\* ORDER BY relevance_score DESC, urgency_score DESC, wedge_potential DESC
SignalOrder(a, b) ==
    \/ a.relevance_score > b.relevance_score
    \/ /\ a.relevance_score = b.relevance_score
       /\ \/ a.urgency_score > b.urgency_score
          \/ /\ a.urgency_score = b.urgency_score
             /\ a.wedge_potential >= b.wedge_potential

\* getSignalsByContact(contactId) with no limit: every result the query may give.
getSignalsByContact(contactId) ==
    LET ofContact(r) == r.contact_id = contactId
    IN  RowOrders(intelligence_signals, ofContact, SignalOrder)

\* createSignal: INSERT INTO intelligence_signals.  contact_id REFERENCES
\* contacts(id): the insert is refused for an id that is no contact.
createSignal(contactId, signalData) ==
    /\ contactId \in contacts
    /\ intelligence_signals' = Insert(intelligence_signals,
          [contact_id |-> contactId,
           signal_type |-> signalData.signal_type,
           signal_category |-> signalData.signal_category,
           relevance_score |-> signalData.relevance_score,
           urgency_score |-> signalData.urgency_score,
           wedge_potential |-> signalData.wedge_potential])
    /\ ret' = NoCall
    /\ UNCHANGED <<contacts, linkedin_activity, linkedin_posts, github_activity,
                   gtm_playbooks, now>>

(***************************************************************************)
(* processors/signal-scorer.js                                             *)
(***************************************************************************)
\* isLinkedInSignal without its third type.
isLinkedInSignalTwoTypes(signalType) ==
    signalType \in {"linkedin_activity", "linkedin_content"}

isLinkedInSignal(signalType) ==
    signalType \in {"linkedin_activity", "linkedin_content", "linkedin_profile_change"}

\* relevance * 0.4 + urgency * 0.3 + wedgePotential * 0.3, in thousandths
\* The composite with the weights of urgency and relevance exchanged.
calculateCompositeScoreSwapped(relevance, urgency, wedgePotential) ==
    relevance * 3 + urgency * 4 + wedgePotential * 3

calculateCompositeScore(relevance, urgency, wedgePotential) ==
    relevance * 4 + urgency * 3 + wedgePotential * 3

\* The copy the scorer makes of one row: boosted relevance (clamped to 1.0) and
\* the mark for a LinkedIn row, and the composite score of every row.
boostSignal(signal) ==
    LET relevance == IF isLinkedInSignal(signal.signal_type)
                     THEN Min(signal.relevance_score + linkedinRelevanceBoost, 100)
                     ELSE signal.relevance_score
    IN  [contact_id |-> signal.contact_id,
         signal_type |-> signal.signal_type,
         signal_category |-> signal.signal_category,
         relevance_score |-> relevance,
         urgency_score |-> signal.urgency_score,
         wedge_potential |-> signal.wedge_potential,
         linkedin_boosted |-> isLinkedInSignal(signal.signal_type),
         composite_score |-> calculateCompositeScore(
             relevance, signal.urgency_score, signal.wedge_potential)]

\* The threshold read as exclusive.
passesMinRelevanceStrict(s) == s.relevance_score > minSignalRelevanceScore

passesMinRelevance(s) == s.relevance_score >= minSignalRelevanceScore

compositeOf(s) == s.composite_score

\* scoreAndPrioritizeSignals on the rows the query returned.
scoreAndPrioritizeSignals(signals) ==
    IF Len(signals) = 0 THEN <<>>
    ELSE SortDesc(Filter(Map(signals, boostSignal), passesMinRelevance), compositeOf)

\* getTopSignals: prioritized.slice(0, count)
\* A slice that skips the head of the list.
topSliceFromSecond(prioritized, count) == Slice(prioritized, 1, count + 1)

topSlice(prioritized, count) == Slice(prioritized, 0, count)

\* One call of scoreAndPrioritizeSignals(contactId).
ScoreAndPrioritizeSignals(contactId) ==
    /\ \E signals \in getSignalsByContact(contactId) :
          ret' = [op |-> "scoreAndPrioritizeSignals",
                  contactId |-> contactId,
                  signals |-> signals,
                  out |-> scoreAndPrioritizeSignals(signals)]
    /\ UNCHANGED <<stores, now>>

\* One call of getTopSignals(contactId, count).
GetTopSignals(contactId, count) ==
    /\ \E signals \in getSignalsByContact(contactId) :
          LET prioritized == scoreAndPrioritizeSignals(signals)
          IN  ret' = [op |-> "getTopSignals",
                      contactId |-> contactId,
                      count |-> count,
                      signals |-> signals,
                      prioritized |-> prioritized,
                      out |-> topSlice(prioritized, count)]
    /\ UNCHANGED <<stores, now>>

(***************************************************************************)
(* The scorer over a growing signal table                                  *)
(***************************************************************************)
MaxSignals == 3

ScorerSignalTypes ==
    {"linkedin_activity", "linkedin_content", "linkedin_profile_change", "github_activity"}
ScorerRelevance == {19, 20, 80}
\* <<urgency_score, wedge_potential>>
ScorerUrgencyWedge == {<<10, 20>>, <<90, 100>>}
TopCounts == {2}

ScorerSignals ==
    {[signal_type |-> ty, signal_category |-> "thought_leadership",
      relevance_score |-> r, urgency_score |-> uw[1], wedge_potential |-> uw[2]] :
        ty \in ScorerSignalTypes, r \in ScorerRelevance, uw \in ScorerUrgencyWedge}

\* What the collectors store for a second contact, whose rows a query for the
\* first must not return.
OtherContactSignals ==
    {s \in ScorerSignals : s.signal_type = "linkedin_content" /\ s.relevance_score = 80}

EmptyStore ==
    /\ intelligence_signals = EmptyBag
    /\ linkedin_activity = EmptyBag
    /\ linkedin_posts = EmptyBag
    /\ github_activity = EmptyBag
    /\ gtm_playbooks = EmptyBag
    /\ now = 0
    /\ ret = NoCall
    /\ calls = EmptyBag
    /\ successes = [c \in ContactIds |-> 0]
    /\ linkedin_scrape_queue = <<>>
    /\ workers = [w \in Workers |-> NULL]
    /\ rowLocks = <<>>
    /\ circuitBreaker = [failures |-> 0, lastFailure |-> NULL, isOpen |-> FALSE]
    /\ inflight = 0
    /\ clock = 0
    /\ linkedinLimiter = [tokens |-> maxRequestsPerMin, sinceRefill |-> 0, queue |-> <<>>]
    /\ timeouts = <<>>
    /\ requestLog = <<>>
    /\ arrived = 0
    /\ elapsed = 0
    /\ waiting = [platform \in Platforms |-> 0]
    /\ research_jobs = <<>>
    /\ performing = <<>>

InitScorer ==
    /\ contacts = {1, 2}
    /\ EmptyStore

NextScorer ==
    \/ /\ /\ BagCardinality(intelligence_signals) < MaxSignals
          /\ \/ \E s \in ScorerSignals : createSignal(1, s)
             \/ \E s \in OtherContactSignals : createSignal(2, s)
       /\ UNCHANGED <<callVars, queueVars, breakerVars, scrapeVars, jobVars>>
    \/ /\ \E c \in ContactIds : ScoreAndPrioritizeSignals(c)
       /\ UNCHANGED <<callVars, queueVars, breakerVars, scrapeVars, jobVars>>
    \/ /\ \E c \in ContactIds, n \in TopCounts : GetTopSignals(c, n)
       /\ UNCHANGED <<callVars, queueVars, breakerVars, scrapeVars, jobVars>>

SpecScorer == InitScorer /\ [][NextScorer]_vars

(***************************************************************************)
(* Properties of the scorer                                                *)
(***************************************************************************)
\* The list scoreAndPrioritizeSignals produced in the last call.
Prioritized == IF ret.op = "getTopSignals" THEN ret.prioritized ELSE ret.out

ScorerReturned == ret.op \in {"scoreAndPrioritizeSignals", "getTopSignals"}

\* The stored rows of the contact the last call was made for.
StoredOfCaller ==
    {r \in BagToSet(intelligence_signals) : r.contact_id = ret.contactId}

LinkedInOrigin(r) ==
    r.signal_type \in {"linkedin_activity", "linkedin_content", "linkedin_profile_change"}

\* The relevance the scorer is to report for stored row r.
ReportedRelevance(r) ==
    IF LinkedInOrigin(r)
    THEN (IF r.relevance_score + 30 > 100 THEN 100 ELSE r.relevance_score + 30)
    ELSE r.relevance_score

\* Output element o is the scorer's copy of stored row r.
CopyOf(o, r) ==
    /\ o.contact_id = r.contact_id
    /\ o.signal_type = r.signal_type
    /\ o.signal_category = r.signal_category
    /\ o.urgency_score = r.urgency_score
    /\ o.wedge_potential = r.wedge_potential
    /\ o.relevance_score = ReportedRelevance(r)

\* How many rows of the set rows the table holds.
RowCount(rows) == BagCardinality([r \in rows |-> intelligence_signals[r]])

\* C1: every element of the scorer's output is the copy of a stored row of the
\* contact whose relevance is min(stored + 0.3, 1.0) and which is marked boosted
\* when the row's type is one of the three LinkedIn types, and whose relevance
\* is the stored one, unmarked, otherwise; a LinkedIn row with stored + 0.3 > 1.0
\* is output with relevance exactly 1.0; output relevance stays within [0, 1].
C1_BoostAndClamp ==
    ScorerReturned =>
        /\ \A j \in DOMAIN Prioritized :
              LET o == Prioritized[j]
              IN  /\ o.relevance_score \in 0..100
                  /\ o.linkedin_boosted = LinkedInOrigin(o)
                  /\ \E r \in StoredOfCaller : CopyOf(o, r)
        /\ \A r \in StoredOfCaller :
              (LinkedInOrigin(r) /\ r.relevance_score + 30 > 100) =>
                  \E j \in DOMAIN Prioritized :
                      /\ CopyOf(Prioritized[j], r)
                      /\ Prioritized[j].relevance_score = 100
                      /\ Prioritized[j].linkedin_boosted

\* A LinkedIn row stored at 0.80 came out clamped to 1.0 and marked, next to a
\* row of another source that came out unmarked with its stored relevance.
C1_Witness ==
    /\ ret.op = "scoreAndPrioritizeSignals"
    /\ \E r \in StoredOfCaller :
          /\ r.signal_type = "linkedin_profile_change" /\ r.relevance_score = 80
          /\ \E j \in DOMAIN ret.out :
                CopyOf(ret.out[j], r) /\ ret.out[j].relevance_score = 100
    /\ \E j \in DOMAIN ret.out :
          /\ ret.out[j].signal_type = "github_activity"
          /\ ret.out[j].relevance_score = 80
          /\ ~ret.out[j].linkedin_boosted

\* C2: the output holds exactly the contact's stored rows whose reported
\* relevance is >= 0.50, each as often as it is stored: none missing, none
\* twice, none of another contact, none below the threshold.
C2_ThresholdFilter ==
    ScorerReturned =>
        LET kept == {r \in StoredOfCaller : ReportedRelevance(r) >= 50}
        IN  /\ \A j \in DOMAIN Prioritized : \E r \in kept : CopyOf(Prioritized[j], r)
            /\ \A r \in kept :
                  Cardinality({j \in DOMAIN Prioritized : CopyOf(Prioritized[j], r)})
                      = RowCount({q \in kept :
                                    /\ q.signal_type = r.signal_type
                                    /\ q.signal_category = r.signal_category
                                    /\ q.urgency_score = r.urgency_score
                                    /\ q.wedge_potential = r.wedge_potential
                                    /\ ReportedRelevance(q) = ReportedRelevance(r)})

\* A LinkedIn row stored at 0.20 was kept at 0.50, while a LinkedIn row stored
\* at 0.19 (0.49 boosted) and a row of another source stored at 0.20 were dropped.
C2_Witness ==
    /\ ret.op = "scoreAndPrioritizeSignals"
    /\ Len(ret.out) = 1
    /\ ret.out[1].signal_type = "linkedin_content"
    /\ ret.out[1].relevance_score = 50
    /\ \E r \in StoredOfCaller :
          r.signal_type = "linkedin_activity" /\ r.relevance_score = 19
    /\ \E r \in StoredOfCaller :
          r.signal_type = "github_activity" /\ r.relevance_score = 20

\* C3: every output element's composite score is 0.4*relevance + 0.3*urgency +
\* 0.3*wedgePotential on the reported relevance and the stored urgency and wedge
\* potential (in thousandths: 4r + 3u + 3w on hundredths).
C3_CompositeFormula ==
    ScorerReturned =>
        \A j \in DOMAIN Prioritized :
            \E r \in StoredOfCaller :
                /\ CopyOf(Prioritized[j], r)
                /\ Prioritized[j].composite_score =
                       4 * ReportedRelevance(r) + 3 * r.urgency_score + 3 * r.wedge_potential

\* A boosted LinkedIn row (0.20 -> 0.50, urgency 0.90, potential 1.00: 0.77) and
\* a row of another source (0.80, 0.10, 0.20: 0.41) were both scored.
C3_Witness ==
    /\ ret.op = "scoreAndPrioritizeSignals"
    /\ \E j \in DOMAIN ret.out :
          ret.out[j].signal_type = "linkedin_activity" /\ ret.out[j].composite_score = 770
    /\ \E j \in DOMAIN ret.out :
          ret.out[j].signal_type = "github_activity" /\ ret.out[j].composite_score = 410

\* C4: getTopSignals(contactId, n) is the first min(n, length) elements of the
\* scorer's list, which is in non-increasing composite order; every returned
\* element scores at least as high as every threshold-passing row not returned.
C4_TopSignals ==
    ret.op = "getTopSignals" =>
        LET k == IF ret.count < Len(ret.prioritized) THEN ret.count ELSE Len(ret.prioritized)
            kept == {r \in StoredOfCaller : ReportedRelevance(r) >= 50}
        IN  /\ ret.out = [j \in 1..k |-> ret.prioritized[j]]
            /\ \A i \in DOMAIN ret.prioritized, j \in DOMAIN ret.prioritized :
                  i < j => ret.prioritized[i].composite_score >= ret.prioritized[j].composite_score
            /\ \A r \in kept :
                  Cardinality({j \in DOMAIN ret.out : CopyOf(ret.out[j], r)}) < RowCount({r})
                      => \A j \in DOMAIN ret.out :
                            ret.out[j].composite_score >=
                                4 * ReportedRelevance(r) + 3 * r.urgency_score
                                    + 3 * r.wedge_potential

\* Three rows passed the threshold, the query returned them in an order that is
\* not the composite order, and getTopSignals(_, 2) returned the best two.
C4_Witness ==
    /\ ret.op = "getTopSignals"
    /\ ret.count = 2
    /\ Len(ret.prioritized) = 3
    /\ Len(ret.out) = 2
    /\ ret.out[1].composite_score > ret.out[2].composite_score
    /\ ret.out[2].composite_score > ret.prioritized[3].composite_score
    /\ ret.signals[1].relevance_score > ret.signals[2].relevance_score
    /\ ret.out[1].urgency_score = ret.signals[2].urgency_score
    /\ ret.out[1].signal_type = ret.signals[2].signal_type
    /\ ret.out[1].signal_type # ret.signals[1].signal_type

(***************************************************************************)
(* db/queries.js: contactQueries, linkedinQueries, githubQueries and the   *)
(* writes of scrapers/linkedin-automation                                  *)
(***************************************************************************)
upsertContact(contactId) ==
    /\ contacts' = contacts \cup {contactId}
    /\ ret' = NoCall
    /\ UNCHANGED <<intelligence_signals, linkedin_activity, linkedin_posts,
                   github_activity, gtm_playbooks, now>>

\* SELECT * FROM contacts WHERE id = $1, rows[0]
getContactById(contactId) == IF contactId \in contacts THEN Some(contactId) ELSE NULL

\* SELECT * FROM linkedin_activity WHERE contact_id = $1, rows[0]
getProfile(contactId) ==
    {r \in BagToSet(linkedin_activity) : r.contact_id = contactId}

\* SELECT * FROM github_activity WHERE contact_id = $1, rows[0]
getActivity(contactId) ==
    {r \in BagToSet(github_activity) : r.contact_id = contactId}

\* ORDER BY post_date DESC
PostOrder(a, b) == a.post_date >= b.post_date

getRecentPosts(contactId, limit) ==
    LET ofContact(r) == r.contact_id = contactId
    IN  {Slice(s, 0, limit) : s \in RowOrders(linkedin_posts, ofContact, PostOrder)}

\* INSERT ... ON CONFLICT (contact_id) DO UPDATE
saveProfile(contactId, profileData) ==
    /\ contactId \in contacts
    /\ linkedin_activity' =
           Insert(linkedin_activity (-) [r \in getProfile(contactId) |-> 1],
                  [contact_id |-> contactId,
                   current_position_tenure_months |->
                       profileData.current_position_tenure_months])
    /\ ret' = NoCall
    /\ UNCHANGED <<contacts, intelligence_signals, linkedin_posts, github_activity,
                   gtm_playbooks, now>>

\* INSERT ... ON CONFLICT (contact_id) DO UPDATE
saveActivity(contactId, activityData) ==
    /\ contactId \in contacts
    /\ github_activity' =
           Insert(github_activity (-) [r \in getActivity(contactId) |-> 1],
                  [contact_id |-> contactId,
                   activity_score |-> activityData.activity_score])
    /\ ret' = NoCall
    /\ UNCHANGED <<contacts, intelligence_signals, linkedin_activity, linkedin_posts,
                   gtm_playbooks, now>>

\* The row that holds post_url already (the column is UNIQUE; NULLs never conflict).
postWithUrl(post_url) ==
    {r \in BagToSet(linkedin_posts) : post_url # NULL /\ r.post_url = post_url}

\* One post of savePosts: INSERT ... ON CONFLICT (post_url) DO UPDATE, which
\* rewrites the content, engagement, topics, themes and flags of the row that
\* holds the url and leaves its contact_id and post_date as they are.
savePosts(contactId, post) ==
    /\ contactId \in contacts
    /\ LET old == postWithUrl(post.post_url)
           row == [contact_id |-> IF old = {} THEN contactId ELSE Val(old).contact_id,
                   post_url |-> post.post_url,
                   post_date |-> IF old = {} THEN post.post_date ELSE Val(old).post_date,
                   post_content |-> post.post_content,
                   engagement_count |-> post.engagement_count,
                   key_themes |-> post.key_themes,
                   topics_detected |-> post.topics_detected,
                   mentions_pain_points |-> post.mentions_pain_points,
                   mentions_buying_signals |-> post.mentions_buying_signals]
       IN  linkedin_posts' = Insert(linkedin_posts (-) [r \in old |-> 1], row)
    /\ ret' = NoCall
    /\ UNCHANGED <<contacts, intelligence_signals, linkedin_activity, github_activity,
                   gtm_playbooks, now>>

\* The row the scraper's INSERT INTO linkedin_posts (contact_id, post_content,
\* post_date, post_type) leaves: every other column NULL or at its default.
scrapedPost(contactId) ==
    [contact_id |-> contactId,
     post_url |-> NULL,
     post_date |-> now,
     post_content |-> Some("scraped"),
     engagement_count |-> NULL,
     key_themes |-> NULL,
     topics_detected |-> NULL,
     mentions_pain_points |-> FALSE,
     mentions_buying_signals |-> FALSE]

\* One transaction: upsert the contact, upsert the profile row without touching
\* the tenure column, insert the captured posts.
storeProfileData(contactId, nPosts) ==
    /\ contacts' = contacts \cup {contactId}
    /\ linkedin_activity' =
           IF getProfile(contactId) # {} THEN linkedin_activity
           ELSE Insert(linkedin_activity,
                       [contact_id |-> contactId,
                        current_position_tenure_months |-> NULL])
    /\ linkedin_posts' =
           IF nPosts = 0 THEN linkedin_posts
           ELSE linkedin_posts (+) [r \in {scrapedPost(contactId)} |-> nPosts]
    /\ ret' = NoCall
    /\ UNCHANGED <<intelligence_signals, github_activity, gtm_playbooks, now>>

(***************************************************************************)
(* processors/wedge-detector.js                                            *)
(***************************************************************************)
\* 1000 * 60 * 60 * 24 ms, in ticks
TicksPerDay == 2

\* Math.floor((Date.now() - date) / day); \div rounds down, as Math.floor does
getDaysSince(date) == (now - date) \div TicksPerDay

\* A wedge: its type and score, and of its details what the pipeline reads
\* again; a detail the rule does not set is absent.
Wedge(type, score, postUrl, daysSince, tenureMonths) ==
    [type |-> type, score |-> score, postUrl |-> postUrl,
     daysSince |-> daysSince, tenureMonths |-> tenureMonths]

\* What a rule does: it returns its wedges, or it throws.
Emits(wedges) == [threw |-> FALSE, wedges |-> wedges]
Throws == [threw |-> TRUE, wedges |-> <<>>]

\* x[0] on a nullable array throws a TypeError when the array is null.
derefThrows(array) == array = NULL

mentionsPainPoints(p) == p.mentions_pain_points
mentionsBuyingSignals(p) == p.mentions_buying_signals

recencyBoost(daysSincePost) ==
    IF daysSincePost < 7 THEN 15 ELSE IF daysSincePost < 14 THEN 10 ELSE 5

painPointWedge(post) ==
    Wedge("linkedin_pain_point", 95 + recencyBoost(getDaysSince(post.post_date)),
          post.post_url, Some(getDaysSince(post.post_date)), NULL)

\* post.post_content.substring and post.key_themes[0] throw on a null column.
detectPainPointWedges(posts) ==
    LET painPointPosts == Filter(posts, mentionsPainPoints)
    IN  IF \E i \in DOMAIN painPointPosts :
               \/ painPointPosts[i].post_content = NULL
               \/ derefThrows(painPointPosts[i].key_themes)
        THEN Throws
        ELSE Emits(Map(painPointPosts, painPointWedge))

buyingSignalWedge(post) ==
    Wedge("linkedin_buying_signal", 98, post.post_url,
          Some(getDaysSince(post.post_date)), NULL)

detectBuyingSignalWedges(posts) ==
    LET buyingSignalPosts == Filter(posts, mentionsBuyingSignals)
    IN  IF \E i \in DOMAIN buyingSignalPosts :
               \/ buyingSignalPosts[i].post_content = NULL
               \/ derefThrows(buyingSignalPosts[i].key_themes)
        THEN Throws
        ELSE Emits(Map(buyingSignalPosts, buyingSignalWedge))

\* !x on a nullable number: null, undefined and 0 are falsy.
falsyNumber(o) == o = NULL \/ Val(o) = 0

detectJobChangeWedges(profile, signals) ==
    IF profile = NULL \/ falsyNumber(Val(profile).current_position_tenure_months)
    THEN Emits(<<>>)
    ELSE LET tenureMonths == Val(Val(profile).current_position_tenure_months)
         IN  IF tenureMonths < 6
             THEN Emits(<<Wedge("linkedin_job_change_recent", 90, NULL, NULL,
                                Some(tenureMonths))>>)
             ELSE IF tenureMonths >= 6 /\ tenureMonths <= 12
             THEN Emits(<<Wedge("linkedin_job_change_optimal", 85, NULL, NULL,
                                Some(tenureMonths))>>)
             ELSE Emits(<<>>)

\* posts.reduce((sum, p) => sum + (p.engagement_count || 0), 0)
engagementSum(posts) ==
    LET f[n \in 0..Len(posts)] ==
            IF n = 0 THEN 0 ELSE f[n - 1] + OrZero(posts[n].engagement_count)
    IN  f[Len(posts)]

\* The comparison with twice the average read as inclusive.
isHighEngagementInclusive(p, posts) ==
    OrZero(p.engagement_count) * Len(posts) >= 2 * engagementSum(posts)

\* (p.engagement_count || 0) > avgEngagement * 2 with avgEngagement the sum
\* over posts.length, cleared of the division
isHighEngagement(p, posts) ==
    OrZero(p.engagement_count) * Len(posts) > 2 * engagementSum(posts)

activePosterMinPosts == 10

detectThoughtLeadershipWedges(posts) ==
    IF Len(posts) = 0 THEN Emits(<<>>)
    ELSE
      LET high(p) == isHighEngagement(p, posts)
          highEngagementPosts == Filter(posts, high)
          topPost == highEngagementPosts[1]
          \* topPost.key_themes[0] || topPost.topics_detected[0], and
          \* topPost.topics_detected[0] again in the conversation starters
          topPostThrows ==
              derefThrows(topPost.key_themes) \/ derefThrows(topPost.topics_detected)
          highWedges ==
              IF Len(highEngagementPosts) > 0
              THEN <<Wedge("linkedin_thought_leadership", 85, topPost.post_url,
                           Some(getDaysSince(topPost.post_date)), NULL)>>
              ELSE <<>>
          activeWedges ==
              IF Len(posts) >= activePosterMinPosts
              THEN <<Wedge("linkedin_active_poster", 75, NULL, NULL, NULL)>>
              ELSE <<>>
      IN  IF Len(highEngagementPosts) > 0 /\ topPostThrows
          THEN Throws
          ELSE Emits(highWedges \o activeWedges)

technicalTopics == {"API", "integration", "technical", "developer", "automation"}

\* (p.topics_detected || []).some(t => [...].includes(t))
isTechnicalPost(p) ==
    /\ p.topics_detected # NULL
    /\ \E t \in Range(Val(p.topics_detected)) : t \in technicalTopics

detectTechnicalWedges(posts, githubActivity) ==
    IF githubActivity = NULL THEN Emits(<<>>)
    ELSE IF /\ Len(Filter(posts, isTechnicalPost)) > 0
            /\ Val(githubActivity).activity_score > 60
         THEN Emits(<<Wedge("technical_buyer", 80, NULL, NULL, NULL)>>)
         ELSE Emits(<<>>)

\* The initiative filter without its test of the signal type.
isInitiativeSignalAnyType(s) == s.signal_category = "timing_trigger"

isInitiativeSignal(s) ==
    /\ s.signal_category = "timing_trigger"
    /\ s.signal_type = "company_hiring" \/ s.signal_type = "company_initiatives"

detectInitiativeWedges(signals) ==
    IF Len(Filter(signals, isInitiativeSignal)) > 0
    THEN Emits(<<Wedge("company_initiative", 70, NULL, NULL, NULL)>>)
    ELSE Emits(<<>>)

scoreOf(w) == w.score

noWedges == [wedges |-> <<>>, primaryWedge |-> NULL, wedgeCount |-> 0]

\* The rules run in order inside one try block; the first throw discards what the
\* rules before it pushed, and the catch returns the empty result.
detectWedges(linkedinProfile, linkedinPosts, signals, githubActivity) ==
    LET rules == <<detectPainPointWedges(linkedinPosts),
                   detectBuyingSignalWedges(linkedinPosts),
                   detectJobChangeWedges(linkedinProfile, signals),
                   detectThoughtLeadershipWedges(linkedinPosts),
                   detectTechnicalWedges(linkedinPosts, githubActivity),
                   detectInitiativeWedges(signals)>>
        wedges == rules[1].wedges \o rules[2].wedges \o rules[3].wedges
                  \o rules[4].wedges \o rules[5].wedges \o rules[6].wedges
        sortedWedges == SortDesc(wedges, scoreOf)
    IN  IF \E k \in DOMAIN rules : rules[k].threw
        THEN noWedges
        ELSE [wedges |-> sortedWedges,
              primaryWedge |-> IF Len(sortedWedges) = 0 THEN NULL
                               ELSE Some(sortedWedges[1]),
              wedgeCount |-> Len(sortedWedges)]

recentPostsLimit == 10

\* detectWedges(contactId): the four reads of the Promise.all, then the rules.
DetectWedges(contactId) ==
    /\ \E linkedinPosts \in getRecentPosts(contactId, recentPostsLimit),
          signals \in getSignalsByContact(contactId) :
          ret' = [op |-> "detectWedges",
                  contactId |-> contactId,
                  linkedinProfile |-> getProfile(contactId),
                  linkedinPosts |-> linkedinPosts,
                  signals |-> signals,
                  githubActivity |-> getActivity(contactId),
                  out |-> detectWedges(getProfile(contactId), linkedinPosts, signals,
                                       getActivity(contactId))]
    /\ UNCHANGED <<stores, now>>

\* The clock moves on; a result returned before is no longer the current one.
Tick ==
    /\ now' = now + 1
    /\ ret' = NoCall
    /\ UNCHANGED stores

(***************************************************************************)
(* The wedge detector over a store that the collectors fill                *)
(***************************************************************************)
MaxRows == 3
MaxNow == 1

\* The rows the collectors have stored.
storedRows ==
    BagCardinality(intelligence_signals) + BagCardinality(linkedin_activity)
        + BagCardinality(linkedin_posts) + BagCardinality(github_activity)

WedgeTenures == {NULL, Some(0), Some(5), Some(6), Some(12), Some(13)}
WedgeProfiles == [current_position_tenure_months : WedgeTenures]
WedgeActivities == [activity_score : {60, 61}]

WedgeSignals ==
    {[signal_type |-> ty, signal_category |-> "timing_trigger",
      relevance_score |-> 80, urgency_score |-> 70, wedge_potential |-> 70] :
        ty \in {"company_hiring", "linkedin_profile_change"}}

\* Posts as the manual-entry route and the analyzer format them: a date, an
\* engagement count and both arrays always, a content only when the entry has one.
PainPointPosts ==
    {[post_url |-> Some(u), post_date |-> d, post_content |-> Some("struggling with"),
      engagement_count |-> Some(0), key_themes |-> Some(<<"forecasting">>),
      topics_detected |-> Some(<<>>), mentions_pain_points |-> TRUE,
      mentions_buying_signals |-> FALSE] : u \in {1, 2}, d \in {-27, -13, -1}}

FlaggedPosts ==
    {[post_url |-> Some(3), post_date |-> -1, post_content |-> c,
      engagement_count |-> Some(0), key_themes |-> Some(<<>>),
      topics_detected |-> Some(<<>>), mentions_pain_points |-> f[1],
      mentions_buying_signals |-> f[2]] :
        c \in {NULL, Some("looking for")},
        f \in {<<TRUE, FALSE>>, <<FALSE, TRUE>>}}

TechnicalPosts ==
    {[post_url |-> Some(4), post_date |-> 0, post_content |-> Some("our API"),
      engagement_count |-> Some(4), key_themes |-> Some(<<>>),
      topics_detected |-> Some(<<"API">>), mentions_pain_points |-> FALSE,
      mentions_buying_signals |-> FALSE]}

WedgePosts == PainPointPosts \cup FlaggedPosts \cup TechnicalPosts
ScrapeSizes == {9}

InitWedge ==
    /\ contacts = {1}
    /\ EmptyStore

NextWedge ==
    \/ /\ /\ storedRows < MaxRows
          /\ \/ \E p \in WedgeProfiles : saveProfile(1, p)
             \/ \E a \in WedgeActivities : saveActivity(1, a)
             \/ \E s \in WedgeSignals : createSignal(1, s)
             \/ \E p \in WedgePosts : savePosts(1, p)
             \/ \E c \in ContactIds, n \in ScrapeSizes : storeProfileData(c, n)
       /\ UNCHANGED <<callVars, queueVars, breakerVars, scrapeVars, jobVars>>
    \/ /\ now < MaxNow /\ Tick
       /\ UNCHANGED <<callVars, queueVars, breakerVars, scrapeVars, jobVars>>
    \/ /\ \E c \in ContactIds : DetectWedges(c)
       /\ UNCHANGED <<callVars, queueVars, breakerVars, scrapeVars, jobVars>>

SpecWedge == InitWedge /\ [][NextWedge]_vars

(***************************************************************************)
(* Properties of the wedge detector                                        *)
(***************************************************************************)
DetectorReturned == ret.op = "detectWedges"

\* How often x occurs in sequence s.
Occurrences(s, x) == Cardinality({i \in DOMAIN s : s[i] = x})

\* What the six rules emit on the data the last call fetched, in rule order.
EmittedByRules ==
    detectPainPointWedges(ret.linkedinPosts).wedges
        \o detectBuyingSignalWedges(ret.linkedinPosts).wedges
        \o detectJobChangeWedges(ret.linkedinProfile, ret.signals).wedges
        \o detectThoughtLeadershipWedges(ret.linkedinPosts).wedges
        \o detectTechnicalWedges(ret.linkedinPosts, ret.githubActivity).wedges
        \o detectInitiativeWedges(ret.signals).wedges

\* C5: detectWedges returns the wedges that the six rules emit on the fetched
\* data, each as often as it is emitted, in non-increasing score order;
\* primaryWedge is the first of them and null exactly when there is none;
\* wedgeCount is their number.
C5_AllRulesSorted ==
    DetectorReturned =>
        LET w == ret.out.wedges
        IN  /\ \A x \in Range(w) \cup Range(EmittedByRules) :
                  Occurrences(w, x) = Occurrences(EmittedByRules, x)
            /\ \A i \in DOMAIN w, j \in DOMAIN w : i < j => w[i].score >= w[j].score
            /\ ret.out.primaryWedge = (IF Len(w) = 0 THEN NULL ELSE Some(w[1]))
            /\ (ret.out.primaryWedge = NULL) <=> (Len(w) = 0)
            /\ ret.out.wedgeCount = Len(w)

\* The score the pain-point rule is to give a post of the given date: 0.95 plus
\* 0.15 under 7 days of age (14 ticks), 0.10 under 14 days (28 ticks), else 0.05.
PainPointScore(post_date) ==
    IF now - post_date < 14 THEN 110 ELSE IF now - post_date < 28 THEN 105 ELSE 100

\* C6: detectWedges returns exactly one pain-point wedge for every fetched post
\* flagged mentionsPainPoints, scored 1.10, 1.05 or 1.00 by the post's age.
C6_PainPointPerFlaggedPost ==
    DetectorReturned =>
        LET posts == ret.linkedinPosts
            w == ret.out.wedges
            flagged == {i \in DOMAIN posts : posts[i].mentions_pain_points}
            painPoint == {j \in DOMAIN w : w[j].type = "linkedin_pain_point"}
        IN  /\ Cardinality(painPoint) = Cardinality(flagged)
            /\ \A i \in flagged :
                  Cardinality({j \in painPoint :
                                 /\ w[j].postUrl = posts[i].post_url
                                 /\ w[j].score = PainPointScore(posts[i].post_date)})
                    = Cardinality({k \in flagged :
                                     /\ posts[k].post_url = posts[i].post_url
                                     /\ PainPointScore(posts[k].post_date)
                                            = PainPointScore(posts[i].post_date)})

\* C7: on the fetched profile the job-change rule emits exactly one 'recent'
\* wedge of score 0.90 when the tenure is below 6 months, exactly one 'optimal'
\* wedge of score 0.85 when it is 6 to 12 months, and nothing when the tenure
\* is above 12 or absent or there is no profile; never more than one wedge.
C7_JobChangeRule ==
    DetectorReturned =>
        LET rule == detectJobChangeWedges(ret.linkedinProfile, ret.signals)
            tenure == IF ret.linkedinProfile = NULL THEN NULL
                      ELSE Val(ret.linkedinProfile).current_position_tenure_months
        IN  /\ ~rule.threw
            /\ Len(rule.wedges) <= 1
            /\ IF tenure = NULL \/ Val(tenure) > 12 THEN rule.wedges = <<>>
               ELSE /\ Len(rule.wedges) = 1
                    /\ rule.wedges[1].tenureMonths = tenure
                    /\ IF Val(tenure) < 6
                       THEN /\ rule.wedges[1].type = "linkedin_job_change_recent"
                            /\ rule.wedges[1].score = 90
                       ELSE /\ rule.wedges[1].type = "linkedin_job_change_optimal"
                            /\ rule.wedges[1].score = 85

\* The engagement of the post, null counted as 0.
Engagement(p) == IF p.engagement_count = NULL THEN 0 ELSE Val(p.engagement_count)

\* The total engagement of the first n posts of the sequence.
TotalEngagement(posts) ==
    LET total[n \in 0..Len(posts)] ==
            IF n = 0 THEN 0 ELSE total[n - 1] + Engagement(posts[n])
    IN  total[Len(posts)]

\* C8: on the fetched posts the thought-leadership rule emits a high-engagement
\* wedge (0.85) exactly when some post's engagement exceeds twice the average
\* (e > 2 * total / n, that is e * n > 2 * total), and an active-poster wedge
\* (0.75) exactly when at least 10 posts were fetched; it emits nothing else,
\* at most one of each, and nothing when there are no posts.
C8_ThoughtLeadershipRule ==
    DetectorReturned =>
        LET posts == ret.linkedinPosts
            rule == detectThoughtLeadershipWedges(posts)
            someHigh == \E i \in DOMAIN posts :
                            Engagement(posts[i]) * Len(posts) > 2 * TotalEngagement(posts)
            highs == {j \in DOMAIN rule.wedges :
                        /\ rule.wedges[j].type = "linkedin_thought_leadership"
                        /\ rule.wedges[j].score = 85}
            actives == {j \in DOMAIN rule.wedges :
                          /\ rule.wedges[j].type = "linkedin_active_poster"
                          /\ rule.wedges[j].score = 75}
        IN  /\ ~rule.threw
            /\ Cardinality(highs) = (IF someHigh THEN 1 ELSE 0)
            /\ Cardinality(actives) = (IF Len(posts) >= 10 THEN 1 ELSE 0)
            /\ Len(rule.wedges) = Cardinality(highs) + Cardinality(actives)
            /\ (Len(posts) = 0 => rule.wedges = <<>>)

\* Ten posts were fetched, nine of them scraped without an engagement count
\* and one with engagement 4, above twice the average 0.4: both wedges were
\* emitted and returned.
C8_Witness ==
    /\ DetectorReturned
    /\ Len(ret.linkedinPosts) = 10
    /\ \E i \in DOMAIN ret.linkedinPosts : ret.linkedinPosts[i].engagement_count = Some(4)
    /\ \E i \in DOMAIN ret.linkedinPosts : ret.linkedinPosts[i].engagement_count = NULL
    /\ \E j \in DOMAIN ret.out.wedges : ret.out.wedges[j].type = "linkedin_thought_leadership"
    /\ \E j \in DOMAIN ret.out.wedges : ret.out.wedges[j].type = "linkedin_active_poster"

(***************************************************************************)
(* processors/playbook-generator.js                                        *)
(***************************************************************************)
\* How a call completes: it returns {success, error, playbook}, or it throws.
Returns(success, error, playbook) ==
    [threw |-> FALSE, success |-> success, error |-> error, playbook |-> playbook]
Raise(message) ==
    [threw |-> TRUE, success |-> FALSE, error |-> Some(message), playbook |-> NULL]

\* primaryWedge.type.startsWith('linkedin_')
isLinkedInWedge(wedge) ==
    wedge.type \in {"linkedin_pain_point", "linkedin_buying_signal",
                    "linkedin_job_change_recent", "linkedin_job_change_optimal",
                    "linkedin_thought_leadership", "linkedin_active_poster"}

\* posts.find(p => p.post_url === primaryWedge.details.postUrl)
findTriggerPost(posts, primaryWedge) ==
    LET hits == {i \in DOMAIN posts : posts[i].post_url = primaryWedge.postUrl}
    IN  IF hits = {} THEN NULL
        ELSE Some(posts[CHOOSE i \in hits : \A j \in hits : i <= j])

\* buildLinkedInContext dereferences triggerPost.post_content.substring
buildLinkedInContextThrows(profile, posts, primaryWedge) ==
    /\ profile # NULL
    /\ isLinkedInWedge(primaryWedge)
    /\ primaryWedge.postUrl # NULL
    /\ findTriggerPost(posts, primaryWedge) # NULL
    /\ Val(findTriggerPost(posts, primaryWedge)).post_content = NULL

\* formatSignalAsEvidence: the text that identifies the signal (its type stands
\* for the description column) and its relevance as a percentage.
formatSignalAsEvidence(signal) ==
    [text |-> signal.signal_type, relevance |-> Some(signal.relevance_score)]

\* `${wedge.description} (${wedge.type})`
formatWedgeAsEvidence(wedge) == [text |-> wedge.type, relevance |-> NULL]

\* The top signals, then the wedges after the primary one (at most three).
buildSupportingEvidence(signals, wedges) ==
    Map(Slice(signals, 0, 5), formatSignalAsEvidence)
        \o Map(Slice(wedges.wedges, 1, 4), formatWedgeAsEvidence)

\* recommendChannels without the unconditional email assignment.
recommendChannelsNoBaseline(linkedinProfile, linkedinPosts, githubActivity) ==
    LET baseline == [linkedin_dm |-> 50, email |-> 70, phone |-> 30]
        activePoster == IF Len(linkedinPosts) >= 5
                        THEN [baseline EXCEPT !.linkedin_dm = 95, !.email = 60]
                        ELSE baseline
    IN  IF githubActivity # NULL /\ Val(githubActivity).activity_score > 60
        THEN [activePoster EXCEPT !.phone = 20, !.email = 90]
        ELSE activePoster

\* Channel scores in hundredths. linkedinPosts is always an array here.
recommendChannels(linkedinProfile, linkedinPosts, githubActivity) ==
    LET baseline == [linkedin_dm |-> 50, email |-> 70, phone |-> 30]
        activePoster == IF Len(linkedinPosts) >= 5
                        THEN [baseline EXCEPT !.linkedin_dm = 95, !.email = 60]
                        ELSE baseline
        emailBaseline == [activePoster EXCEPT !.email = 80]
    IN  IF githubActivity # NULL /\ Val(githubActivity).activity_score > 60
        THEN [emailBaseline EXCEPT !.phone = 20, !.email = 90]
        ELSE emailBaseline

\* post?.key_themes?.[0]
firstTheme(post) ==
    IF post # NULL /\ Val(post).key_themes # NULL /\ Len(Val(Val(post).key_themes)) > 0
    THEN Some(Val(Val(post).key_themes)[1])
    ELSE NULL

\* post?.topics_detected?.[0]
firstTopic(post) ==
    IF post # NULL /\ Val(post).topics_detected # NULL
       /\ Len(Val(Val(post).topics_detected)) > 0
    THEN Some(Val(Val(post).topics_detected)[1])
    ELSE NULL

\* What the outreach text is made of: the template, the topic it names and the
\* number it quotes (the contact's name and title are the same in every call).
Outreach(template, topic, number) ==
    [template |-> template, topic |-> topic, number |-> number]

generatePainPointOutreach(wedge, posts) ==
    LET post == findTriggerPost(posts, wedge)
    IN  Outreach("painPoint",
                 IF firstTheme(post) # NULL THEN Val(firstTheme(post))
                 ELSE "this challenge",
                 IF post = NULL THEN 0 ELSE OrZero(Val(post).engagement_count))

generateThoughtLeadershipOutreach(posts) ==
    LET topPost == IF Len(posts) > 0 THEN Some(posts[1]) ELSE NULL
    IN  Outreach("thoughtLeadership",
                 IF firstTheme(topPost) # NULL THEN Val(firstTheme(topPost))
                 ELSE IF firstTopic(topPost) # NULL THEN Val(firstTopic(topPost))
                 ELSE "your recent insights",
                 0)

\* profile?.current_position_tenure_months || 'recently' (number 0 stands for the
\* word)
generateJobChangeOutreach(profile) ==
    Outreach("jobChange", "role",
             IF profile = NULL THEN 0
             ELSE OrZero(Val(profile).current_position_tenure_months))

\* The template is chosen by the primary wedge's type.
generateOutreach(primaryWedge, linkedinProfile, linkedinPosts) ==
    IF primaryWedge.type = "linkedin_pain_point"
    THEN generatePainPointOutreach(primaryWedge, linkedinPosts)
    ELSE IF primaryWedge.type = "linkedin_buying_signal"
    THEN Outreach("buyingSignal", "solution category", 0)
    ELSE IF primaryWedge.type \in {"linkedin_job_change_recent",
                                   "linkedin_job_change_optimal"}
    THEN generateJobChangeOutreach(linkedinProfile)
    ELSE IF primaryWedge.type = "linkedin_thought_leadership"
    THEN generateThoughtLeadershipOutreach(linkedinPosts)
    ELSE IF primaryWedge.type = "technical_buyer"
    THEN Outreach("technical", "software development", 0)
    ELSE Outreach("general", "your role", 0)

\* The tenure sentence of the timing rationale: none without a profile or with
\* a tenure that is null or 0, or above 12 months.
tenureSentence(linkedinProfile) ==
    IF linkedinProfile = NULL
           \/ falsyNumber(Val(linkedinProfile).current_position_tenure_months)
    THEN NULL
    ELSE IF Val(Val(linkedinProfile).current_position_tenure_months) < 6
    THEN Some("In first 6 months of new role")
    ELSE IF Val(Val(linkedinProfile).current_position_tenure_months) <= 12
    THEN Some("Past honeymoon phase")
    ELSE NULL

\* signals.filter(s => parseFloat(s.urgency_score) > 0.8)
isUrgent(s) == s.urgency_score > 80

urgentSignals(signals) == Filter(signals, isUrgent)

\* buildTimingRationale: the sentences that are joined, the primary wedge's own
\* rationale (here its type), the tenure sentence if any, and the count of the
\* sentence "<n> high-urgency signals detected" if there is one.
buildTimingRationale(primaryWedge, linkedinProfile, signals) ==
    [wedge |-> primaryWedge.type,
     tenure |-> tenureSentence(linkedinProfile),
     urgent |-> IF Len(urgentSignals(signals)) > 0
                THEN Some(Len(urgentSignals(signals))) ELSE NULL]

isTechStackSignal(s) == s.signal_type = "company_tech_stack"

\* signals.filter(s => s.signal_type === 'company_tech_stack')
techStackSignals(signals) == Filter(signals, isTechStackSignal)

\* buildCompetitiveContext: the fixed string or the sentence that renders the
\* list raw_data.techStack of the first such signal (the list is not modelled).
buildCompetitiveContext(signals) ==
    IF Len(techStackSignals(signals)) = 0
    THEN "No current tech stack information available"
    ELSE "Current stack includes"

\* The playbook object: what is returned and what savePlaybook inserts.
buildPlaybook(contactId, linkedinProfile, linkedinPosts, githubActivity, topSignals, wedges) ==
    LET primaryWedge == Val(wedges.primaryWedge)
    IN  [contact_id |-> contactId,
         primary_wedge |-> primaryWedge.type,
         wedge_score |-> primaryWedge.score,
         supporting_evidence |-> buildSupportingEvidence(topSignals, wedges),
         timing_rationale |->
             buildTimingRationale(primaryWedge, linkedinProfile, topSignals),
         recommended_channels |->
             recommendChannels(linkedinProfile, linkedinPosts, githubActivity),
         competitive_context |-> buildCompetitiveContext(topSignals),
         sample_outreach |->
             generateOutreach(primaryWedge, linkedinProfile, linkedinPosts)]

\* The try block with the wedge test ahead of the contact test.
tryGeneratePlaybookWedgeFirst(contactId, contact, linkedinProfile, linkedinPosts, githubActivity, topSignals, wedges) ==
    IF wedges.primaryWedge = NULL
    THEN Returns(FALSE, Some("Insufficient intelligence to generate playbook"), NULL)
    ELSE IF contact = NULL THEN Raise("Contact not found")
    ELSE IF buildLinkedInContextThrows(linkedinProfile, linkedinPosts,
                                       Val(wedges.primaryWedge))
    THEN Raise("Cannot read properties of null (reading 'substring')")
    ELSE Returns(TRUE, NULL,
                 Some(buildPlaybook(contactId, linkedinProfile, linkedinPosts,
                                    githubActivity, topSignals, wedges)))

\* The try block of generatePlaybook, after its reads.
tryGeneratePlaybook(contactId, contact, linkedinProfile, linkedinPosts, githubActivity, topSignals, wedges) ==
    IF contact = NULL THEN Raise("Contact not found")
    ELSE IF wedges.primaryWedge = NULL
    THEN Returns(FALSE, Some("Insufficient intelligence to generate playbook"), NULL)
    ELSE IF buildLinkedInContextThrows(linkedinProfile, linkedinPosts,
                                       Val(wedges.primaryWedge))
    THEN Raise("Cannot read properties of null (reading 'substring')")
    ELSE Returns(TRUE, NULL,
                 Some(buildPlaybook(contactId, linkedinProfile, linkedinPosts,
                                    githubActivity, topSignals, wedges)))

\* catch (error) { return { success: false, error: error.message } }
generatePlaybook(contactId, contact, linkedinProfile, linkedinPosts, githubActivity, topSignals, wedges) ==
    LET completion == tryGeneratePlaybook(contactId, contact, linkedinProfile,
                                          linkedinPosts, githubActivity, topSignals,
                                          wedges)
    IN  IF completion.threw THEN Returns(FALSE, completion.error, NULL)
        ELSE completion

\* An upsert on contact_id in place of the INSERT.
savePlaybookReplacing(playbook) ==
    LET others == {r \in BagToSet(gtm_playbooks) : r.contact_id # playbook.contact_id}
    IN  [r \in others |-> gtm_playbooks[r]] (+) SetToBag({playbook})

\* The INSERT executed twice.
savePlaybookTwice(playbook) == Insert(Insert(gtm_playbooks, playbook), playbook)

\* INSERT INTO gtm_playbooks
savePlaybook(playbook) == Insert(gtm_playbooks, playbook)

\* The reads one generatePlaybook call issues: the five of its own Promise.all,
\* the scorer's read of the signals, and the detector's four.
OwnReads == {"getContactById", "getProfile", "getRecentPosts", "getActivity",
             "getEngagements"}
ScorerReads == {"scorer.getSignalsByContact"}
DetectorReads == {"detector.getProfile", "detector.getRecentPosts",
                  "detector.getSignalsByContact", "detector.getActivity"}
Reads == OwnReads \cup ScorerReads \cup DetectorReads

\* error.message of a query the database client rejects
queryError == "Connection terminated unexpectedly"

\* getTopSignals when the scorer's read is rejected: scoreAndPrioritizeSignals
\* catches and returns [], of which the slice is [].
getTopSignalsOrCatch(failing, signals, count) ==
    IF failing \cap ScorerReads # {} THEN <<>>
    ELSE topSlice(scoreAndPrioritizeSignals(signals), count)

\* detectWedges when one of its reads is rejected: its catch returns the empty
\* result.
detectWedgesOrCatch(failing, linkedinProfile, linkedinPosts, signals, githubActivity) ==
    IF failing \cap DetectorReads # {} THEN noWedges
    ELSE detectWedges(linkedinProfile, linkedinPosts, signals, githubActivity)

\* What one generatePlaybook(contactId) call can read and compute while the
\* reads in `failing` are rejected: the reads of its Promise.all, the scorer's
\* and the detector's own reads among them, then the try block. A rejected read
\* of its own rejects the Promise.all and the catch reports the query's message.
generatePlaybookRuns(contactId, failing) ==
    LET run(linkedinPosts, scorerSignals, detectorPosts, detectorSignals) ==
            LET topSignals == getTopSignalsOrCatch(failing, scorerSignals,
                                                   topSignalsCount)
                wedges == detectWedgesOrCatch(failing, getProfile(contactId),
                                              detectorPosts, detectorSignals,
                                              getActivity(contactId))
            IN  [linkedinPosts |-> linkedinPosts,
                 topSignals |-> topSignals,
                 wedges |-> wedges,
                 out |-> IF failing \cap OwnReads # {}
                         THEN Returns(FALSE, Some(queryError), NULL)
                         ELSE generatePlaybook(contactId, getContactById(contactId),
                                               getProfile(contactId), linkedinPosts,
                                               getActivity(contactId), topSignals,
                                               wedges)]
    IN  {run(linkedinPosts, scorerSignals, detectorPosts, detectorSignals) :
            linkedinPosts \in getRecentPosts(contactId, recentPostsLimit),
            scorerSignals \in getSignalsByContact(contactId),
            detectorPosts \in getRecentPosts(contactId, recentPostsLimit),
            detectorSignals \in getSignalsByContact(contactId)}

\* The table after a call that completed with `out`: the save is reached only
\* with a playbook.
playbooksAfter(out) ==
    IF out.threw \/ ~out.success THEN gtm_playbooks
    ELSE savePlaybook(Val(out.playbook))

\* One call of generatePlaybook(contactId) while the reads in `failing` are
\* rejected.
GeneratePlaybook(contactId, failing) ==
    /\ \E run \in generatePlaybookRuns(contactId, failing) :
          /\ gtm_playbooks' = playbooksAfter(run.out)
          /\ ret' = [op |-> "generatePlaybook",
                     contactId |-> contactId,
                     failing |-> failing,
                     linkedinPosts |-> run.linkedinPosts,
                     topSignals |-> run.topSignals,
                     wedges |-> run.wedges,
                     playbooksBefore |-> gtm_playbooks,
                     out |-> run.out]
    /\ UNCHANGED <<contacts, intelligence_signals, linkedin_activity, linkedin_posts,
                   github_activity, now>>

\* A caller that has the result of scoreAndPrioritizeSignals(contactId) calls it
\* again, nothing having been written and the clock not having moved since.
ScoreAndPrioritizeSignalsAgain(contactId) ==
    /\ ret.op \in {"scoreAndPrioritizeSignals", "scoreAndPrioritizeSignalsAgain"}
    /\ ret.contactId = contactId
    /\ \E signals \in getSignalsByContact(contactId) :
          ret' = [op |-> "scoreAndPrioritizeSignalsAgain",
                  contactId |-> contactId,
                  signals |-> signals,
                  previous |-> ret.out,
                  out |-> scoreAndPrioritizeSignals(signals)]
    /\ UNCHANGED <<stores, now>>

\* A caller that has the result of generatePlaybook(contactId) calls it again,
\* no collector having written and the clock not having moved since.
GeneratePlaybookAgain(contactId) ==
    /\ ret.op \in {"generatePlaybook", "generatePlaybookAgain"}
    /\ ret.contactId = contactId
    /\ \E run \in generatePlaybookRuns(contactId, {}) :
          /\ gtm_playbooks' = playbooksAfter(run.out)
          /\ ret' = [op |-> "generatePlaybookAgain",
                     contactId |-> contactId,
                     playbooksBefore |-> gtm_playbooks,
                     previous |-> ret.out,
                     out |-> run.out]
    /\ UNCHANGED <<contacts, intelligence_signals, linkedin_activity, linkedin_posts,
                   github_activity, now>>

(***************************************************************************)
(* The whole pipeline: collectors write, callers ask for playbooks         *)
(***************************************************************************)
MaxPlaybooks == 2

PlaybookProfiles == [current_position_tenure_months : {NULL, Some(5)}]
PlaybookActivities == [activity_score : {61}]
PlaybookPosts ==
    {p \in PainPointPosts : p.post_url = Some(1) /\ p.post_date = -1}
        \cup {p \in FlaggedPosts : p.post_content = NULL /\ p.mentions_pain_points}
        \cup TechnicalPosts

Init ==
    /\ contacts = {1}
    /\ EmptyStore

Next ==
    \/ /\ /\ storedRows < MaxRows
          /\ \/ \E p \in PlaybookProfiles : saveProfile(1, p)
             \/ \E a \in PlaybookActivities : saveActivity(1, a)
             \/ \E s \in WedgeSignals : createSignal(1, s)
             \/ \E p \in PlaybookPosts : savePosts(1, p)
             \/ \E c \in ContactIds : storeProfileData(c, 1)
       /\ UNCHANGED <<callVars, queueVars, breakerVars, scrapeVars, jobVars>>
    \/ /\ upsertContact(2)
       /\ UNCHANGED <<callVars, queueVars, breakerVars, scrapeVars, jobVars>>
    \/ /\ \E c \in ContactIds :
             /\ BagCardinality(gtm_playbooks) < MaxPlaybooks
             /\ GeneratePlaybook(c, {})
       /\ UNCHANGED <<callVars, queueVars, breakerVars, scrapeVars, jobVars>>

Spec == Init /\ [][Next]_vars

(***************************************************************************)
(* Properties of the playbook generator                                    *)
(***************************************************************************)
PlaybookReturned == ret.op = "generatePlaybook"

\* The contact of the last call has nothing a detection rule could work on: no
\* post, no profile or a profile without tenure, no GitHub row, and no
\* timing-trigger signal about the company.
NoIntelligence ==
    /\ \A r \in BagToSet(linkedin_posts) : r.contact_id # ret.contactId
    /\ \A r \in BagToSet(linkedin_activity) :
          r.contact_id = ret.contactId => r.current_position_tenure_months = NULL
    /\ \A r \in BagToSet(github_activity) : r.contact_id # ret.contactId
    /\ \A r \in BagToSet(intelligence_signals) :
          r.contact_id = ret.contactId =>
              ~(/\ r.signal_category = "timing_trigger"
                /\ r.signal_type \in {"company_hiring", "company_initiatives"})

\* C9: for an existing contact with no posts, no profile tenure, no GitHub
\* activity and no timing-trigger company signal, the detector's primaryWedge is
\* null, generatePlaybook returns (does not throw) success:false with the
\* insufficient-intelligence error and no playbook, and no row is persisted.
C9_InsufficientIntelligence ==
    (PlaybookReturned /\ ret.contactId \in contacts /\ NoIntelligence) =>
        /\ ret.wedges.primaryWedge = NULL
        /\ ~ret.out.threw
        /\ ~ret.out.success
        /\ ret.out.error = Some("Insufficient intelligence to generate playbook")
        /\ ret.out.playbook = NULL
        /\ gtm_playbooks = ret.playbooksBefore

\* A contact with a tenure-less profile and a timing-trigger signal that is not
\* about the company was asked for, and the call reported insufficient
\* intelligence.
C9_Witness ==
    /\ PlaybookReturned
    /\ ret.contactId \in contacts
    /\ NoIntelligence
    /\ \E r \in BagToSet(linkedin_activity) : r.contact_id = ret.contactId
    /\ \E r \in BagToSet(intelligence_signals) :
          r.contact_id = ret.contactId /\ r.signal_type = "linkedin_profile_change"
    /\ ret.out.error = Some("Insufficient intelligence to generate playbook")

\* C10: for a contact id that does not exist generatePlaybook returns (does not
\* throw) success:false with the not-found error, not the insufficient-
\* intelligence one, and persists no playbook, whatever the store holds.
C10_ContactNotFound ==
    (PlaybookReturned /\ ret.contactId \notin contacts) =>
        /\ ~ret.out.threw
        /\ ~ret.out.success
        /\ ret.out.error = Some("Contact not found")
        /\ ret.out.playbook = NULL
        /\ gtm_playbooks = ret.playbooksBefore

\* Contact 2 does not exist while contact 1 has rows and a playbook of its own:
\* the call for 2 found no wedge either and reported not-found.
C10_Witness ==
    /\ PlaybookReturned
    /\ ret.contactId \notin contacts
    /\ ret.wedges.primaryWedge = NULL
    /\ ret.out.error = Some("Contact not found")
    /\ linkedin_posts # EmptyBag
    /\ intelligence_signals # EmptyBag
    /\ gtm_playbooks # EmptyBag

(***************************************************************************)
(* The pipeline while the database rejects queries                         *)
(***************************************************************************)
\* No read is rejected, or exactly one of the ten is.
Outages == {{}} \cup {{r} : r \in Reads}

OutageSignals == {s \in WedgeSignals : s.signal_type = "company_hiring"}
OutagePosts == {p \in PainPointPosts : p.post_url = Some(1) /\ p.post_date = -1}

InitOutage ==
    /\ contacts = {1}
    /\ EmptyStore

NextOutage ==
    \/ /\ /\ storedRows < MaxRows
          /\ \/ \E p \in PlaybookProfiles : saveProfile(1, p)
             \/ \E s \in OutageSignals : createSignal(1, s)
             \/ \E p \in OutagePosts : savePosts(1, p)
       /\ UNCHANGED <<callVars, queueVars, breakerVars, scrapeVars, jobVars>>
    \/ /\ \E failing \in Outages :
             /\ BagCardinality(gtm_playbooks) < MaxPlaybooks
             /\ GeneratePlaybook(1, failing)
       /\ UNCHANGED <<callVars, queueVars, breakerVars, scrapeVars, jobVars>>
    \/ /\ ScoreAndPrioritizeSignals(1)
       /\ UNCHANGED <<callVars, queueVars, breakerVars, scrapeVars, jobVars>>
    \/ /\ \E count \in TopCounts : GetTopSignals(1, count)
       /\ UNCHANGED <<callVars, queueVars, breakerVars, scrapeVars, jobVars>>
    \/ /\ DetectWedges(1)
       /\ UNCHANGED <<callVars, queueVars, breakerVars, scrapeVars, jobVars>>

SpecOutage == InitOutage /\ [][NextOutage]_vars

\* What the six rules emit on the given data, in rule order.
RulesEmit(linkedinProfile, linkedinPosts, signals, githubActivity) ==
    detectPainPointWedges(linkedinPosts).wedges
        \o detectBuyingSignalWedges(linkedinPosts).wedges
        \o detectJobChangeWedges(linkedinProfile, signals).wedges
        \o detectThoughtLeadershipWedges(linkedinPosts).wedges
        \o detectTechnicalWedges(linkedinPosts, githubActivity).wedges
        \o detectInitiativeWedges(signals).wedges

\* C11: when a read issued during generatePlaybook is rejected (one of its own
\* five, the scorer's or one of the detector's), the call returns a failure
\* result, returns no playbook and persists none.
C11_FailedReadFailsCall ==
    (PlaybookReturned /\ ret.failing # {}) =>
        /\ ~ret.out.success
        /\ ret.out.playbook = NULL
        /\ gtm_playbooks = ret.playbooksBefore

\* C12: generatePlaybook reports insufficient intelligence only when no read was
\* rejected and no rule emits a wedge on the contact's stored data.
C12_InsufficientOnlyWithoutWedges ==
    (PlaybookReturned
        /\ ret.out.error = Some("Insufficient intelligence to generate playbook")) =>
        /\ ret.failing = {}
        /\ \A posts \in getRecentPosts(ret.contactId, recentPostsLimit),
              signals \in getSignalsByContact(ret.contactId) :
              RulesEmit(getProfile(ret.contactId), posts, signals,
                        getActivity(ret.contactId)) = <<>>

(***************************************************************************)
(* Absent inputs of the wedge detector                                     *)
(***************************************************************************)
\* The last detectWedges call found no profile row or no tenure in it, no post,
\* or no GitHub row.
SomeInputAbsent ==
    \/ ret.linkedinProfile = NULL
    \/ Val(ret.linkedinProfile).current_position_tenure_months = NULL
    \/ ret.linkedinPosts = <<>>
    \/ ret.githubActivity = NULL

\* C13: when the profile, its tenure, the posts or the GitHub row are absent,
\* detectWedges still returns every wedge that the rules emit on the data that
\* is there, each as often as it is emitted.
C13_AbsenceDisablesOnlyItsRule ==
    (DetectorReturned /\ SomeInputAbsent) =>
        \A x \in Range(ret.out.wedges) \cup Range(EmittedByRules) :
            Occurrences(ret.out.wedges, x) = Occurrences(EmittedByRules, x)

(***************************************************************************)
(* The channels a playbook recommends                                      *)
(***************************************************************************)
\* A contact with a profile, whose posts are scraped four or five at a time and
\* whose GitHub activity score is 0.60 or 0.61.
ChannelScrapeSizes == {4, 5}
ChannelProfiles == [current_position_tenure_months : {Some(5)}]

InitChannels ==
    /\ contacts = {1}
    /\ EmptyStore

NextChannels ==
    \/ /\ /\ storedRows < MaxRows
          /\ \/ \E p \in ChannelProfiles : saveProfile(1, p)
             \/ \E a \in WedgeActivities : saveActivity(1, a)
             \/ \E p \in OutagePosts \cup TechnicalPosts : savePosts(1, p)
             \/ \E n \in ChannelScrapeSizes : storeProfileData(1, n)
       /\ UNCHANGED <<callVars, queueVars, breakerVars, scrapeVars, jobVars>>
    \/ /\ /\ BagCardinality(gtm_playbooks) < MaxPlaybooks
          /\ GeneratePlaybook(1, {})
       /\ UNCHANGED <<callVars, queueVars, breakerVars, scrapeVars, jobVars>>

SpecChannels == InitChannels /\ [][NextChannels]_vars

\* The activity score of the GitHub row of the last call's contact is above 0.6.
TechnicalBuyer ==
    \E r \in BagToSet(github_activity) :
        r.contact_id = ret.contactId /\ r.activity_score > 60

\* C14: a generated playbook recommends linkedin_dm 0.95 when at least 5 posts
\* were fetched and 0.5 otherwise, phone 0.2 and email 0.9 when the GitHub
\* activity score is above 0.6 and phone 0.3 and email 0.8 otherwise; no
\* generated or stored playbook has email 0.6 or 0.7.
C14_RecommendedChannels ==
    /\ (PlaybookReturned /\ ret.out.success) =>
          Val(ret.out.playbook).recommended_channels =
              [linkedin_dm |-> IF Len(ret.linkedinPosts) >= 5 THEN 95 ELSE 50,
               email |-> IF TechnicalBuyer THEN 90 ELSE 80,
               phone |-> IF TechnicalBuyer THEN 20 ELSE 30]
    /\ \A r \in BagToSet(gtm_playbooks) : r.recommended_channels.email \notin {60, 70}

\* Playbooks were generated on both sides of each threshold: with 5 fetched
\* posts and an activity score of 0.61, and with 4 posts and a score of 0.60.
C14_Witness ==
    /\ PlaybookReturned
    /\ ret.out.success
    /\ Len(ret.linkedinPosts) = 5
    /\ TechnicalBuyer
    /\ Val(ret.out.playbook).recommended_channels =
           [linkedin_dm |-> 95, email |-> 90, phone |-> 20]
    /\ \E r \in BagToSet(gtm_playbooks) :
          r.recommended_channels = [linkedin_dm |-> 50, email |-> 80, phone |-> 30]

(***************************************************************************)
(* What the four entry points write                                        *)
(***************************************************************************)
\* The step is a call of scoreAndPrioritizeSignals, getTopSignals, detectWedges
\* or generatePlaybook (the collectors' writes and the clock leave no call
\* record).
CallStep == ret' # NoCall

\* C15: a call of scoreAndPrioritizeSignals, getTopSignals, detectWedges or
\* generatePlaybook leaves contacts, signals, profiles, posts and GitHub rows as
\* they are; a successful generatePlaybook adds exactly one row to
\* gtm_playbooks, the playbook it returns, and every other call, a failed
\* generatePlaybook included, leaves gtm_playbooks as it is.
C15_OnlyWriteIsThePlaybook ==
    [][CallStep =>
          /\ UNCHANGED <<contacts, intelligence_signals, linkedin_activity,
                         linkedin_posts, github_activity>>
          /\ gtm_playbooks' =
                 IF ret'.op = "generatePlaybook" /\ ret'.out.success
                 THEN gtm_playbooks (+) SetToBag({Val(ret'.out.playbook)})
                 ELSE gtm_playbooks]_vars

\* A generatePlaybook call failed on a store that holds signals, a profile and
\* the playbook of an earlier successful call, and left the playbooks as they were.
C15_Witness ==
    /\ PlaybookReturned
    /\ ~ret.out.success
    /\ intelligence_signals # EmptyBag
    /\ linkedin_activity # EmptyBag
    /\ linkedin_posts # EmptyBag
    /\ gtm_playbooks # EmptyBag
    /\ gtm_playbooks = ret.playbooksBefore

(***************************************************************************)
(* The same call made twice                                                *)
(***************************************************************************)
\* Signals of which two differ only in their type, one ranks below them and one
\* is below the threshold; posts of which two differ only in url and theme.
RepeatSignals ==
    {[signal_type |-> ty, signal_category |-> "thought_leadership",
      relevance_score |-> r, urgency_score |-> 90, wedge_potential |-> 100] :
        ty \in {"linkedin_activity", "linkedin_content"}, r \in {20, 60}}
        \cup {[signal_type |-> "github_activity",
               signal_category |-> "technical_depth",
               relevance_score |-> 60, urgency_score |-> 10, wedge_potential |-> 20]}

RepeatPosts ==
    {[post_url |-> Some(u[1]), post_date |-> -1,
      post_content |-> Some("struggling with"), engagement_count |-> Some(0),
      key_themes |-> Some(<<u[2]>>), topics_detected |-> Some(<<>>),
      mentions_pain_points |-> TRUE, mentions_buying_signals |-> FALSE] :
        u \in {<<1, "forecasting">>, <<2, "hiring">>}}

InitRepeat ==
    /\ contacts = {1}
    /\ EmptyStore

NextRepeat ==
    \/ /\ /\ storedRows < MaxRows
          /\ \/ \E s \in RepeatSignals : createSignal(1, s)
             \/ \E p \in RepeatPosts : savePosts(1, p)
             \/ \E p \in ChannelProfiles : saveProfile(1, p)
       /\ UNCHANGED <<callVars, queueVars, breakerVars, scrapeVars, jobVars>>
    \/ /\ ScoreAndPrioritizeSignals(1)
       /\ UNCHANGED <<callVars, queueVars, breakerVars, scrapeVars, jobVars>>
    \/ /\ ScoreAndPrioritizeSignalsAgain(1)
       /\ UNCHANGED <<callVars, queueVars, breakerVars, scrapeVars, jobVars>>
    \/ /\ /\ BagCardinality(gtm_playbooks) < MaxPlaybooks
          /\ \/ GeneratePlaybook(1, {})
             \/ GeneratePlaybookAgain(1)
       /\ UNCHANGED <<callVars, queueVars, breakerVars, scrapeVars, jobVars>>

SpecRepeat == InitRepeat /\ [][NextRepeat]_vars

\* C16: scoreAndPrioritizeSignals called again for the same contact, the stored
\* signals not having changed, returns the list it returned before, in the same
\* order.
C16_ScoringIsRepeatable ==
    ret.op = "scoreAndPrioritizeSignalsAgain" => ret.out = ret.previous

\* C18: generatePlaybook called again for the same contact, the stored data not
\* having changed and the clock reading the same, returns what it returned
\* before: the same primary wedge and score, supporting evidence in the same
\* order, the same channels and the same outreach.
C18_PlaybookIsRepeatable ==
    ret.op = "generatePlaybookAgain" => ret.out = ret.previous

(***************************************************************************)
(* Concurrent generatePlaybook calls                                       *)
(***************************************************************************)
\* generatePlaybook(contactId) up to its save: the reads and the try block. The
\* call remembers how many playbook rows there were when it read.
StartGeneratePlaybook(contactId) ==
    /\ \E run \in generatePlaybookRuns(contactId, {}) :
          calls' = calls (+) SetToBag({[contactId |-> contactId,
                                        rowsAtStart |-> BagCardinality(gtm_playbooks),
                                        out |-> run.out]})
    /\ UNCHANGED <<stores, now, ret, successes>>

\* The rest of the call: the INSERT when there is a playbook, and the return.
FinishGeneratePlaybook(call) ==
    /\ BagIn(call, calls)
    /\ calls' = calls (-) SetToBag({call})
    /\ gtm_playbooks' = playbooksAfter(call.out)
    /\ successes' = [successes EXCEPT
                        ![call.contactId] = @ + (IF call.out.success THEN 1 ELSE 0)]
    /\ ret' = [op |-> "generatePlaybookReturned",
               contactId |-> call.contactId,
               rowsAtStart |-> call.rowsAtStart,
               playbooksBefore |-> gtm_playbooks,
               out |-> call.out]
    /\ UNCHANGED <<contacts, intelligence_signals, linkedin_activity, linkedin_posts,
                   github_activity, now>>

InitConcurrent ==
    /\ contacts = {1}
    /\ EmptyStore

NextConcurrent ==
    \/ /\ storedRows < MaxRows
       /\ \/ \E p \in PlaybookProfiles : saveProfile(1, p)
          \/ \E s \in OutageSignals : createSignal(1, s)
          \/ \E p \in OutagePosts : savePosts(1, p)
       /\ UNCHANGED <<callVars, queueVars, breakerVars, scrapeVars, jobVars>>
    \/ /\ BagCardinality(gtm_playbooks) + BagCardinality(calls) < MaxPlaybooks
       /\ \E c \in ContactIds : StartGeneratePlaybook(c)
       /\ UNCHANGED <<queueVars, breakerVars, scrapeVars, jobVars>>
    \/ /\ \E call \in BagToSet(calls) : FinishGeneratePlaybook(call)
       /\ UNCHANGED <<queueVars, breakerVars, scrapeVars, jobVars>>

SpecConcurrent == InitConcurrent /\ [][NextConcurrent]_vars

\* The number of playbook rows of a contact in table t.
playbookCount(t, contactId) ==
    LET rows == {r \in BagToSet(t) : r.contact_id = contactId}
    IN  BagCardinality([r \in rows |-> t[r]])

\* C17: however generatePlaybook calls interleave, a contact has as many playbook
\* rows as calls for it returned success; a step never removes or changes a row,
\* and it adds one row for the contact exactly when a call for it returns
\* success.
C17_IndependentCalls ==
    /\ [](\A c \in ContactIds : playbookCount(gtm_playbooks, c) = successes[c])
    /\ [][/\ gtm_playbooks \sqsubseteq gtm_playbooks'
          /\ \A c \in ContactIds :
                playbookCount(gtm_playbooks', c) - playbookCount(gtm_playbooks, c)
                    = successes'[c] - successes[c]]_vars

\* Two calls for contact 1 succeeded with the same playbook; the one that
\* returned last had read when there was no row yet and saved when the other's
\* row was there, and both rows are kept.
C17_Witness ==
    /\ ret.op = "generatePlaybookReturned"
    /\ ret.contactId = 1
    /\ ret.out.success
    /\ ret.rowsAtStart = 0
    /\ ret.playbooksBefore # EmptyBag
    /\ successes[1] = 2
    /\ CopiesIn(Val(ret.out.playbook), gtm_playbooks) = 2

(***************************************************************************)
(* scrapers/linkedin-automation.js: the scrape queue                       *)
(***************************************************************************)
\* if (queueItem.attempts >= 3): the attempts after which an error is final
maxQueueAttempts == 3

\* A new row: status DEFAULT 'pending', attempts DEFAULT 0, added_at DEFAULT
\* NOW() (held as the row's rank of insertion).
queueRow(priority) ==
    [status |-> "pending", priority |-> priority, attempts |-> 0,
     added_at |-> Cardinality(DOMAIN linkedin_scrape_queue)]

\* GREATEST(linkedin_scrape_queue.priority, $2)
greatest(a, b) == IF a >= b THEN a ELSE b

\* INSERT ... ON CONFLICT (linkedin_url) DO UPDATE SET priority = GREATEST(...)
addToQueue(url, priority) ==
    /\ linkedin_scrape_queue' =
           IF url \in DOMAIN linkedin_scrape_queue
           THEN [linkedin_scrape_queue EXCEPT
                    ![url].priority = greatest(@, priority)]
           ELSE linkedin_scrape_queue @@ (url :> queueRow(priority))
    /\ UNCHANGED <<stores, now, ret, workers, rowLocks>>

\* WHERE status IN ('pending', 'rate_limited')
claimable ==
    {u \in DOMAIN linkedin_scrape_queue :
        linkedin_scrape_queue[u].status \in {"pending", "rate_limited"}}

\* ORDER BY priority DESC, added_at ASC
queueBefore(a, b) ==
    \/ linkedin_scrape_queue[a].priority > linkedin_scrape_queue[b].priority
    \/ /\ linkedin_scrape_queue[a].priority = linkedin_scrape_queue[b].priority
       /\ linkedin_scrape_queue[a].added_at <= linkedin_scrape_queue[b].added_at

\* getNextInQueue: one UPDATE that claims the first claimable row, or null.
getNextInQueue ==
    IF claimable = {} THEN NULL
    ELSE Some(CHOOSE u \in claimable : \A v \in claimable : queueBefore(u, v))

\* UPDATE linkedin_scrape_queue SET status = $1 WHERE id = $n
updateQueueStatus(url, status) ==
    [linkedin_scrape_queue EXCEPT ![url].status = status]

\* processNextProfile up to the scrape: the claim. The process keeps the row as
\* the UPDATE returned it.
ClaimNextProfile(w) ==
    /\ workers[w] = NULL
    /\ getNextInQueue # NULL
    /\ LET url == Val(getNextInQueue)
           attempts == linkedin_scrape_queue[url].attempts + 1
       IN  /\ linkedin_scrape_queue' =
                  [linkedin_scrape_queue EXCEPT ![url].status = "processing",
                                                ![url].attempts = attempts]
           /\ workers' = [workers EXCEPT
                             ![w] = Some([linkedin_url |-> url, attempts |-> attempts])]
    /\ UNCHANGED <<stores, now, ret, rowLocks>>

\* The scrape succeeded: the profile is stored and the item completed.
ProfileScraped(w, nPosts) ==
    /\ workers[w] # NULL
    /\ storeProfileData(Val(workers[w]).linkedin_url, nPosts)
    /\ linkedin_scrape_queue' =
           updateQueueStatus(Val(workers[w]).linkedin_url, "completed")
    /\ workers' = [workers EXCEPT ![w] = NULL]
    /\ UNCHANGED rowLocks

\* The status the catch block gives the item of a failed attempt.
statusAfterError(rateLimited, attempts) ==
    IF rateLimited THEN "rate_limited"
    ELSE IF attempts >= maxQueueAttempts THEN "failed"
    ELSE "pending"

\* The scrape or the store threw; the message names a rate limit or it does not.
ProfileFailed(w, rateLimited) ==
    /\ workers[w] # NULL
    /\ linkedin_scrape_queue' =
           updateQueueStatus(Val(workers[w]).linkedin_url,
                             statusAfterError(rateLimited, Val(workers[w]).attempts))
    /\ workers' = [workers EXCEPT ![w] = NULL]
    /\ UNCHANGED <<stores, now, ret, rowLocks>>

\* The scrape queue worked on by two automation processes.
MaxAttempts == 4
QueueUrls == {1, 2}
QueuePriorities == {0, 1}

InitQueue ==
    /\ contacts = {}
    /\ EmptyStore

NextQueue ==
    \/ /\ \E u \in QueueUrls, p \in QueuePriorities : addToQueue(u, p)
       /\ UNCHANGED <<callVars, breakerVars, scrapeVars, jobVars>>
    \/ /\ \E w \in Workers :
             /\ getNextInQueue # NULL
             /\ linkedin_scrape_queue[Val(getNextInQueue)].attempts < MaxAttempts
             /\ ClaimNextProfile(w)
       /\ UNCHANGED <<callVars, breakerVars, scrapeVars, jobVars>>
    \/ /\ \E w \in Workers : ProfileScraped(w, 1)
       /\ UNCHANGED <<callVars, breakerVars, scrapeVars, jobVars>>
    \/ /\ \E w \in Workers, rateLimited \in BOOLEAN : ProfileFailed(w, rateLimited)
       /\ UNCHANGED <<callVars, breakerVars, scrapeVars, jobVars>>

SpecQueue == InitQueue /\ [][NextQueue]_vars

\* C19: no queue item has more than 3 attempts; a step changes an item's
\* attempts only by claiming it, which adds one and is never done to a failed
\* or completed item; and an item whose attempt fails is left waiting (pending,
\* or rate_limited) while its attempts are below 3 and is marked failed when
\* its third attempt fails.
C19_AtMostThreeAttempts ==
    /\ [](\A u \in DOMAIN linkedin_scrape_queue :
              linkedin_scrape_queue[u].attempts <= 3)
    /\ [][\A u \in DOMAIN linkedin_scrape_queue :
              LET before == linkedin_scrape_queue[u]
                  after == linkedin_scrape_queue'[u]
                  claimed == before.status # "processing"
                                 /\ after.status = "processing"
                  attemptFailed == before.status = "processing"
                                       /\ after.status \notin {"processing", "completed"}
              IN  /\ after.attempts # before.attempts => claimed
                  /\ claimed => /\ after.attempts = before.attempts + 1
                                /\ before.status \notin {"failed", "completed"}
                  /\ attemptFailed =>
                        IF before.attempts < 3
                        THEN after.status \in {"pending", "rate_limited"}
                        ELSE after.status = "failed"]_vars

(***************************************************************************)
(* FirecrawlClient: the LinkedIn circuit breaker                           *)
(***************************************************************************)
\* if (timeSinceFailure > 300000): 5 minutes, in clock ticks of 150 s
breakerResetTicks == 2

\* if (breaker.failures >= 3)
breakerThreshold == 3

\* Date.now() - breaker.lastFailure > 300000 (a null lastFailure counts as 0)
resetDue ==
    \/ circuitBreaker.lastFailure = NULL
    \/ clock - Val(circuitBreaker.lastFailure) > breakerResetTicks

\* The breaker as isCircuitOpen('linkedin') leaves it: closed and with no
\* failures when it was open and the reset is due, untouched otherwise. What
\* isCircuitOpen returns is the isOpen of this.
afterIsCircuitOpen ==
    IF circuitBreaker.isOpen /\ resetDue
    THEN [circuitBreaker EXCEPT !.isOpen = FALSE, !.failures = 0]
    ELSE circuitBreaker

\* recordFailure('linkedin')
recordFailure(breaker) ==
    [breaker EXCEPT !.failures = @ + 1,
                    !.lastFailure = Some(clock),
                    !.isOpen = @ \/ breaker.failures + 1 >= breakerThreshold]

\* recordSuccess('linkedin')
recordSuccess(breaker) == [breaker EXCEPT !.failures = 0]

\* scrapeUrl(url, options, 'linkedin') up to the request: the breaker is asked,
\* and the call throws when it is open or else sends the request.
ScrapeUrl ==
    /\ circuitBreaker' = afterIsCircuitOpen
    /\ inflight' = IF afterIsCircuitOpen.isOpen THEN inflight ELSE inflight + 1
    /\ ret' = [op |-> "scrapeUrl",
               outcome |-> IF afterIsCircuitOpen.isOpen THEN "circuit open"
                           ELSE "sent"]
    /\ UNCHANGED <<stores, now, clock>>

\* The request was answered: recordSuccess and the result.
ScrapeSucceeded ==
    /\ inflight > 0
    /\ inflight' = inflight - 1
    /\ circuitBreaker' = recordSuccess(circuitBreaker)
    /\ ret' = [op |-> "scrapeUrl", outcome |-> "success"]
    /\ UNCHANGED <<stores, now, clock>>

\* The request failed with the given HTTP status: recordFailure, and on a 403
\* the breaker is opened whatever the count.
ScrapeFailed(status) ==
    /\ inflight > 0
    /\ inflight' = inflight - 1
    /\ circuitBreaker' =
           IF status = 403
           THEN [recordFailure(circuitBreaker) EXCEPT !.isOpen = TRUE]
           ELSE recordFailure(circuitBreaker)
    /\ ret' = [op |-> "scrapeUrl", outcome |-> "failure"]
    /\ UNCHANGED <<stores, now, clock>>

\* getRateLimitStatus(): reads the breaker's fields as they are.
GetRateLimitStatus ==
    /\ ret' = [op |-> "getRateLimitStatus",
               circuitOpen |-> circuitBreaker.isOpen,
               failures |-> circuitBreaker.failures]
    /\ UNCHANGED <<stores, now, circuitBreaker, inflight, clock>>

\* Time passes in the scraper process.
ClockTick ==
    /\ clock' = clock + 1
    /\ UNCHANGED <<stores, now, ret, circuitBreaker, inflight>>

\* The breaker under requests sent one after another or several at a time.
MaxClock == 3
MaxInflight == 2
FailureStatuses == {403, 429, 500}

InitBreaker ==
    /\ contacts = {}
    /\ EmptyStore

Requested == inflight < MaxInflight /\ ScrapeUrl
Answered == ScrapeSucceeded \/ \E status \in FailureStatuses : ScrapeFailed(status)
TimePasses == clock < MaxClock /\ ClockTick

NextBreaker ==
    \/ /\ Requested
       /\ UNCHANGED <<callVars, queueVars, scrapeVars, jobVars>>
    \/ /\ ScrapeSucceeded
       /\ UNCHANGED <<callVars, queueVars, scrapeVars, jobVars>>
    \/ /\ \E status \in FailureStatuses : ScrapeFailed(status)
       /\ UNCHANGED <<callVars, queueVars, scrapeVars, jobVars>>
    \/ /\ GetRateLimitStatus
       /\ UNCHANGED <<callVars, queueVars, scrapeVars, jobVars>>
    \/ /\ TimePasses
       /\ UNCHANGED <<callVars, queueVars, scrapeVars, jobVars>>

\* Time passes, and a request that was sent is answered or times out (axios is
\* given a timeout). Nothing in the code makes a next request: requests come
\* from the callers of the scraper.
SpecBreaker ==
    /\ InitBreaker
    /\ [][NextBreaker]_vars
    /\ WF_vars(TimePasses /\ UNCHANGED <<callVars, queueVars, scrapeVars, jobVars>>)
    /\ WF_vars(Answered /\ UNCHANGED <<callVars, queueVars, scrapeVars, jobVars>>)

\* C20: a failed LinkedIn scrape adds one to the failure count and the breaker
\* is open once the count has reached 3; a successful scrape sets the count to
\* zero; and an open breaker whose last recorded failure is more than 5 minutes
\* old becomes closed with a failure count of zero.
C20_BreakerOpensAndResets ==
    /\ [][(inflight' = inflight - 1 /\ ret'.outcome = "failure") =>
              /\ circuitBreaker'.failures = circuitBreaker.failures + 1
              /\ circuitBreaker'.failures >= 3 => circuitBreaker'.isOpen]_vars
    /\ [][(inflight' = inflight - 1 /\ ret'.outcome = "success") =>
              circuitBreaker'.failures = 0]_vars
    /\ (circuitBreaker.isOpen /\ resetDue)
           ~> (~circuitBreaker.isOpen /\ circuitBreaker.failures = 0)

(***************************************************************************)
(* RateLimiter: the LinkedIn token bucket                                  *)
(***************************************************************************)
\* Time of the limiter is counted in ticks of 6 s: this.intervalMs (60000 ms)
\* is 10 ticks and config.rateLimits.linkedin.delayMs (6000 ms) is one.
intervalTicks == 10
delayTicks == 1

\* setTimeout(..., this.intervalMs / this.maxRequests)
refillDelayTicks == intervalTicks \div maxRequestsPerMin

\* The limiter keeps now - lastRefill in place of lastRefill, and no more of it
\* than intervalTicks: beyond that refillTokens fills the bucket whatever the
\* time passed.
Least(a, b) == IF a < b THEN a ELSE b

\* Math.floor((timePassed / this.intervalMs) * this.maxRequests)
tokensToAdd(limiter) == (limiter.sinceRefill * maxRequestsPerMin) \div intervalTicks

\* How many queued callers refillTokens() resolves.
released(limiter) ==
    IF tokensToAdd(limiter) > 0
    THEN Least(Len(limiter.queue), Least(maxRequestsPerMin, limiter.tokens + tokensToAdd(limiter)))
    ELSE 0

\* refillTokens(): the limiter it leaves.
refillTokens(limiter) ==
    IF tokensToAdd(limiter) > 0
    THEN [tokens |-> Least(maxRequestsPerMin, limiter.tokens + tokensToAdd(limiter)) - released(limiter),
          sinceRefill |-> 0,
          queue |-> SubSeq(limiter.queue, released(limiter) + 1, Len(limiter.queue))]
    ELSE limiter

\* A caller whose acquire() resolved goes on in scrapeUrl: sleep(delayMs).
sleepOf(caller) == [after |-> delayTicks, kind |-> "sleep", caller |-> caller]

\* The sleeps that the callers resolved by refillTokens() start, in the order
\* in which they were resolved.
sleepsOfReleased(limiter) == [k \in 1..released(limiter) |-> sleepOf(limiter.queue[k])]

\* scheduleRefill()
scheduleRefill == [after |-> refillDelayTicks, kind |-> "refill", caller |-> 0]

\* acquire(): refillTokens(), then a token is taken or the caller is queued and
\* a refill is scheduled.
acquire(limiter, caller) ==
    LET refilled == refillTokens(limiter)
    IN  IF refilled.tokens > 0
        THEN [limiter |-> [refilled EXCEPT !.tokens = @ - 1],
              timeouts |-> sleepsOfReleased(limiter) \o <<sleepOf(caller)>>]
        ELSE [limiter |-> [refilled EXCEPT !.queue = Append(@, caller)],
              timeouts |-> sleepsOfReleased(limiter) \o <<scheduleRefill>>]

\* scrapeUrl(url, options, 'linkedin') up to its first await that waits: the
\* breaker is closed, and acquire() is called.
ScrapeUrlAcquire ==
    /\ ~afterIsCircuitOpen.isOpen
    /\ arrived' = arrived + 1
    /\ linkedinLimiter' = acquire(linkedinLimiter, arrived + 1).limiter
    /\ timeouts' = timeouts \o acquire(linkedinLimiter, arrived + 1).timeouts
    /\ UNCHANGED <<stores, now, ret, requestLog, elapsed, waiting>>

\* The timeout that is due first runs: a scheduled refill calls refillTokens(),
\* and a caller whose sleep is over sends its request.
TimeoutFires ==
    /\ timeouts # <<>>
    /\ Head(timeouts).after = 0
    /\ IF Head(timeouts).kind = "refill"
       THEN /\ linkedinLimiter' = refillTokens(linkedinLimiter)
            /\ timeouts' = Tail(timeouts) \o sleepsOfReleased(linkedinLimiter)
            /\ UNCHANGED requestLog
       ELSE /\ requestLog' = Append(requestLog, 0)
            /\ timeouts' = Tail(timeouts)
            /\ UNCHANGED linkedinLimiter
    /\ UNCHANGED <<stores, now, ret, arrived, elapsed, waiting>>

\* No timeout is due: the timeouts of a moment run before anything else does.
noneDue == \A k \in 1..Len(timeouts) : timeouts[k].after > 0

\* Calls arrive during the first MaxElapsed ticks; time goes on after them.
MaxElapsed == 2

\* 6 s pass, once the timeouts that are due have run. A request sent a minute
\* ago or more is forgotten.
LimiterTick ==
    /\ noneDue
    /\ elapsed' = Least(MaxElapsed, elapsed + 1)
    /\ timeouts' = [k \in 1..Len(timeouts) |-> [timeouts[k] EXCEPT !.after = @ - 1]]
    /\ linkedinLimiter' = [linkedinLimiter EXCEPT
                              !.sinceRefill = Least(intervalTicks, @ + 1)]
    /\ requestLog' = SelectSeq([k \in 1..Len(requestLog) |-> requestLog[k] + 1],
                               LAMBDA age : age < intervalTicks)
    /\ UNCHANGED <<stores, now, ret, arrived, waiting>>

\* The limiter under any arrival of scrapeUrl calls. Every request is answered
\* with success, which leaves the closed breaker as it is.
MaxCalls == 12

InitLimiter ==
    /\ contacts = {}
    /\ EmptyStore

NextLimiter ==
    \/ /\ arrived < MaxCalls
       /\ elapsed < MaxElapsed
       /\ ScrapeUrlAcquire
       /\ UNCHANGED <<callVars, queueVars, breakerVars, jobVars>>
    \/ /\ TimeoutFires
       /\ UNCHANGED <<callVars, queueVars, breakerVars, jobVars>>
    \/ /\ LimiterTick
       /\ UNCHANGED <<callVars, queueVars, breakerVars, jobVars>>

\* Time passes and a timeout that is due runs; nothing makes a caller call.
SpecLimiter ==
    /\ InitLimiter
    /\ [][NextLimiter]_vars
    /\ WF_vars(TimeoutFires /\ UNCHANGED <<callVars, queueVars, breakerVars, jobVars>>)
    /\ WF_vars(LimiterTick /\ UNCHANGED <<callVars, queueVars, breakerVars, jobVars>>)

\* C21: at no moment were more than 10 LinkedIn scrape requests sent within
\* the last 60 seconds.
C21_AtMostTenPerMinute == Len(requestLog) <= 10

\* The caller is waiting in the limiter's queue.
queued(caller) == \E k \in 1..Len(linkedinLimiter.queue) : linkedinLimiter.queue[k] = caller

\* C30: a caller that acquire() queued is resolved in the end, as time goes on
\* and without any further call; and the queue is served from its head: a step
\* resolves the callers that arrived first and leaves the others in their order.
C30_EveryAcquireResolves ==
    /\ \A caller \in 1..MaxCalls : queued(caller) ~> ~queued(caller)
    /\ [][\E k \in 0..Len(linkedinLimiter.queue) :
              \/ linkedinLimiter'.queue =
                     SubSeq(linkedinLimiter.queue, k + 1, Len(linkedinLimiter.queue))
              \/ linkedinLimiter'.queue =
                     Append(SubSeq(linkedinLimiter.queue, k + 1, Len(linkedinLimiter.queue)),
                            arrived')]_vars

(***************************************************************************)
(* FirecrawlClient.scrapeUrl, step by step                                 *)
(***************************************************************************)
\* isCircuitOpen(platform): only 'linkedin' has a breaker.
isCircuitOpen(platform) == platform = "linkedin" /\ afterIsCircuitOpen.isOpen

\* scrapeUrl(url, options, platform) up to its first await: the breaker is
\* asked, and the call throws or goes on to wait for the limiter and, for
\* LinkedIn, for the delay.
ScrapeUrlCheck(platform) ==
    /\ circuitBreaker' = IF platform = "linkedin" THEN afterIsCircuitOpen
                         ELSE circuitBreaker
    /\ waiting' = IF isCircuitOpen(platform) THEN waiting
                  ELSE [waiting EXCEPT ![platform] = @ + 1]
    /\ ret' = [op |-> "scrapeUrl", platform |-> platform,
               outcome |-> IF isCircuitOpen(platform) THEN "circuit open"
                           ELSE "waiting"]
    /\ UNCHANGED <<stores, now, inflight, clock>>
    /\ UNCHANGED <<linkedinLimiter, timeouts, requestLog, arrived, elapsed>>

\* The awaits of a call are over: axios.post sends its request. The answer to
\* a request of the 'general' platform changes nothing in the client.
ScrapeUrlSend(platform) ==
    /\ waiting[platform] > 0
    /\ waiting' = [waiting EXCEPT ![platform] = @ - 1]
    /\ inflight' = IF platform = "linkedin" THEN inflight + 1 ELSE inflight
    /\ ret' = [op |-> "scrapeUrl", platform |-> platform, outcome |-> "sent"]
    /\ UNCHANGED <<stores, now, circuitBreaker, clock>>
    /\ UNCHANGED <<linkedinLimiter, timeouts, requestLog, arrived, elapsed>>

\* Calls of both platforms, several at a time.
InitGate ==
    /\ contacts = {}
    /\ EmptyStore

NextGate ==
    \/ /\ waiting["linkedin"] + waiting["general"] + inflight < MaxInflight
       /\ \E platform \in Platforms : ScrapeUrlCheck(platform)
       /\ UNCHANGED <<callVars, queueVars, jobVars>>
    \/ /\ \E platform \in Platforms : ScrapeUrlSend(platform)
       /\ UNCHANGED <<callVars, queueVars, jobVars>>
    \/ /\ ScrapeSucceeded
       /\ UNCHANGED <<callVars, queueVars, scrapeVars, jobVars>>
    \/ /\ \E status \in FailureStatuses : ScrapeFailed(status)
       /\ UNCHANGED <<callVars, queueVars, scrapeVars, jobVars>>
    \/ /\ TimePasses
       /\ UNCHANGED <<callVars, queueVars, scrapeVars, jobVars>>

SpecGate == InitGate /\ [][NextGate]_vars

\* C24: no LinkedIn request is sent while the breaker is open (and its reset
\* is not due); a LinkedIn call made while it is open throws without a
\* request; and a call for the 'general' platform is never refused.
C24_NoRequestWhileOpen ==
    /\ [][inflight' = inflight + 1 => ~(circuitBreaker.isOpen /\ ~resetDue)]_vars
    /\ [][waiting'["linkedin"] > waiting["linkedin"] =>
              ~(circuitBreaker.isOpen /\ ~resetDue)]_vars
    /\ [][(ret'.op = "scrapeUrl" /\ ret'.outcome = "circuit open") =>
              /\ ret'.platform = "linkedin"
              /\ inflight' = inflight
              /\ waiting' = waiting]_vars

(***************************************************************************)
(* The playbook's timing rationale and competitive context                 *)
(***************************************************************************)
\* Signals as the collectors store them (linkedin-analyzer.js, job-parser.js),
\* scores in hundredths: a pain-point post, regular posting, a job change of 6
\* to 12 months ago; senior hiring, urgent job postings, company initiatives,
\* volume hiring and the tech stack.
collected(type, category, relevance, urgency, wedgePotential) == [signal_type |-> type, signal_category |-> category, relevance_score |-> relevance, urgency_score |-> urgency, wedge_potential |-> wedgePotential]

CollectedSignals ==
    {collected("linkedin_content", "buying_signal", 95, 95, 95),
     collected("linkedin_activity", "thought_leadership", 90, 80, 90),
     collected("linkedin_profile_change", "timing_trigger", 85, 75, 85),
     collected("company_hiring", "timing_trigger", 90, 85, 85),
     collected("company_hiring", "timing_trigger", 85, 90, 80),
     collected("company_initiatives", "buying_signal", 88, 82, 80),
     collected("company_hiring", "timing_trigger", 85, 80, 75),
     collected("company_tech_stack", "competitive", 80, 70, 75)}

\* The stored form of a collected signal of the contact.
signalRow(contactId, s) == [contact_id |-> contactId] @@ s

InitContext ==
    /\ contacts = {1}
    /\ EmptyStore

NextContext ==
    \/ /\ \E s \in CollectedSignals :
             /\ ~BagIn(signalRow(1, s), intelligence_signals)
             /\ createSignal(1, s)
       /\ UNCHANGED <<callVars, queueVars, breakerVars, scrapeVars, jobVars>>
    \/ /\ gtm_playbooks = EmptyBag
       /\ GeneratePlaybook(1, {})
       /\ UNCHANGED <<callVars, queueVars, breakerVars, scrapeVars, jobVars>>

SpecContext == InitContext /\ [][NextContext]_vars

\* The contact's stored signals of urgency above 0.8, and of the tech stack.
storedUrgent(contactId) == {r \in BagToSet(intelligence_signals) : r.contact_id = contactId /\ r.urgency_score > 80}
storedTechStack(contactId) == {r \in BagToSet(intelligence_signals) : r.contact_id = contactId /\ r.signal_type = "company_tech_stack"}

\* The call made last generated a playbook.
Generated == ret.op = "generatePlaybook" /\ ~ret.out.threw /\ ret.out.success

\* C22: the timing rationale of a generated playbook has the high-urgency
\* sentence exactly when a stored signal of the contact has an urgency above
\* 0.8, and the sentence states how many such signals are stored.
C22_UrgentSentenceCountsStored ==
    Generated =>
        LET n == BagCardinality([r \in storedUrgent(ret.contactId) |-> intelligence_signals[r]])
        IN  Val(ret.out.playbook).timing_rationale.urgent = IF n > 0 THEN Some(n) ELSE NULL

\* C23: the competitive context of a generated playbook is the tech-stack
\* sentence when a stored signal of the contact has the type
\* company_tech_stack, and the fixed string when none has.
C23_TechStackOfStored ==
    Generated =>
        (Val(ret.out.playbook).competitive_context = "Current stack includes"
            <=> storedTechStack(ret.contactId) # {})

(***************************************************************************)
(* The rank of the pain-point and buying-signal wedges                     *)
(***************************************************************************)
\* A post the last detectWedges call fetched is flagged as a pain point, as a
\* buying signal.
SomePainPointPost == \E i \in DOMAIN ret.linkedinPosts : ret.linkedinPosts[i].mentions_pain_points
SomeBuyingSignalPost == \E i \in DOMAIN ret.linkedinPosts : ret.linkedinPosts[i].mentions_buying_signals

\* The primary wedge of the last detectWedges call has the given type.
PrimaryIs(type) == ret.out.primaryWedge # NULL /\ Val(ret.out.primaryWedge).type = type

\* C25: when a fetched post is flagged as a pain point the primary wedge is a
\* pain-point wedge, and the pain-point wedges, of score 1.00 at least, come
\* before every other wedge; when no fetched post is a pain point and one is
\* flagged as a buying signal, the primary wedge is a buying-signal wedge.
C25_PainPointOutranks ==
    DetectorReturned =>
        LET w == ret.out.wedges
        IN  /\ SomePainPointPost => PrimaryIs("linkedin_pain_point")
            /\ (~SomePainPointPost /\ SomeBuyingSignalPost) =>
                   PrimaryIs("linkedin_buying_signal")
            /\ \A i \in DOMAIN w :
                  w[i].type = "linkedin_pain_point" =>
                      /\ w[i].score >= 100
                      /\ \A j \in DOMAIN w :
                            w[j].type # "linkedin_pain_point" =>
                                (i < j /\ w[i].score > w[j].score)

(***************************************************************************)
(* A rule that throws, and the other rules                                 *)
(***************************************************************************)
\* What each of the six rules does on the data the last detectWedges call
\* fetched.
RuleResults ==
    <<detectPainPointWedges(ret.linkedinPosts),
      detectBuyingSignalWedges(ret.linkedinPosts),
      detectJobChangeWedges(ret.linkedinProfile, ret.signals),
      detectThoughtLeadershipWedges(ret.linkedinPosts),
      detectTechnicalWedges(ret.linkedinPosts, ret.githubActivity),
      detectInitiativeWedges(ret.signals)>>

\* C27: detectWedges returns the wedges of every rule that does not throw on
\* the fetched data, each as often as the rule emits it, whatever another rule
\* does on a malformed post.
C27_RulesAreIndependent ==
    DetectorReturned =>
        \A k \in DOMAIN RuleResults :
            ~RuleResults[k].threw =>
                \A x \in Range(RuleResults[k].wedges) :
                    Occurrences(ret.out.wedges, x) >= Occurrences(RuleResults[k].wedges, x)

(***************************************************************************)
(* The reads of one generatePlaybook call, at different moments            *)
(***************************************************************************)
\* The queries of one generatePlaybook call are separate statements on pooled
\* connections, with no transaction around them: those of generatePlaybook
\* itself (with the scorer's) and those of detectWedges see the store at
\* different moments, in either order. The queries that ran first:
ReadsFirst(contactId, first) ==
    /\ \E linkedinPosts \in getRecentPosts(contactId, recentPostsLimit),
          signals \in getSignalsByContact(contactId) :
          calls' = calls (+) SetToBag({[contactId |-> contactId,
                                        first |-> first,
                                        contact |-> getContactById(contactId),
                                        linkedinProfile |-> getProfile(contactId),
                                        linkedinPosts |-> linkedinPosts,
                                        githubActivity |-> getActivity(contactId),
                                        signals |-> signals]})
    /\ UNCHANGED <<stores, now, ret, successes>>

\* The other queries run, and the call goes on to its end: the rules, the try
\* block, the save and the return.
ReadsSecond(call) ==
    /\ BagIn(call, calls)
    /\ calls' = calls (-) SetToBag({call})
    /\ \E posts \in getRecentPosts(call.contactId, recentPostsLimit),
          signals \in getSignalsByContact(call.contactId) :
          LET second == [contact |-> getContactById(call.contactId),
                         linkedinProfile |-> getProfile(call.contactId),
                         linkedinPosts |-> posts,
                         githubActivity |-> getActivity(call.contactId),
                         signals |-> signals]
              own == IF call.first = "generatePlaybook" THEN call ELSE second
              detector == IF call.first = "detectWedges" THEN call ELSE second
              topSignals == topSlice(scoreAndPrioritizeSignals(own.signals),
                                     topSignalsCount)
              wedges == detectWedges(detector.linkedinProfile, detector.linkedinPosts,
                                     detector.signals, detector.githubActivity)
              out == generatePlaybook(call.contactId, own.contact, own.linkedinProfile,
                                      own.linkedinPosts, own.githubActivity,
                                      topSignals, wedges)
          IN  /\ gtm_playbooks' = playbooksAfter(out)
              /\ successes' = [successes EXCEPT
                                  ![call.contactId] = @ + (IF out.success THEN 1 ELSE 0)]
              /\ ret' = [op |-> "generatePlaybook",
                         contactId |-> call.contactId,
                         first |-> call.first,
                         linkedinProfile |-> own.linkedinProfile,
                         linkedinPosts |-> own.linkedinPosts,
                         detectorPosts |-> detector.linkedinPosts,
                         wedges |-> wedges,
                         out |-> out]
    /\ UNCHANGED <<contacts, intelligence_signals, linkedin_activity, linkedin_posts,
                   github_activity, now>>

\* A contact whose posts are entered while playbooks are generated.
ReadParts == {"generatePlaybook", "detectWedges"}
SnapshotPosts == {p \in PainPointPosts : p.post_date = -1}

InitSnapshot ==
    /\ contacts = {1}
    /\ EmptyStore

NextSnapshot ==
    \/ /\ storedRows < MaxRows
       /\ \/ \E p \in PlaybookProfiles : saveProfile(1, p)
          \/ \E p \in SnapshotPosts : savePosts(1, p)
       /\ UNCHANGED <<callVars, queueVars, breakerVars, scrapeVars, jobVars>>
    \/ /\ calls = EmptyBag
       /\ BagCardinality(gtm_playbooks) < MaxPlaybooks
       /\ \E first \in ReadParts : ReadsFirst(1, first)
       /\ UNCHANGED <<queueVars, breakerVars, scrapeVars, jobVars>>
    \/ /\ \E call \in BagToSet(calls) : ReadsSecond(call)
       /\ UNCHANGED <<queueVars, breakerVars, scrapeVars, jobVars>>

SpecSnapshot == InitSnapshot /\ [][NextSnapshot]_vars

\* C26: when the primary wedge of a generatePlaybook call names a post, that
\* post is among the posts of which the call builds the LinkedIn context and
\* the outreach.
C26_PrimaryWedgePostWasFetched ==
    (ret.op = "generatePlaybook" /\ ret.wedges.primaryWedge # NULL
        /\ Val(ret.wedges.primaryWedge).postUrl # NULL) =>
        \E k \in DOMAIN ret.linkedinPosts :
            ret.linkedinPosts[k].post_url = Val(ret.wedges.primaryWedge).postUrl

(***************************************************************************)
(* The scrape queue, statement by statement.  A statement that writes a   *)
(* row holds the row's lock from the moment it finds the row until it     *)
(* commits; getNextInQueue's subselect reads FOR UPDATE SKIP LOCKED and   *)
(* passes over the rows another statement holds.                          *)
(***************************************************************************)

\* The rows no statement holds.
unlocked == DOMAIN linkedin_scrape_queue \ DOMAIN rowLocks

\* WHERE status IN ('pending', 'rate_limited') ... FOR UPDATE SKIP LOCKED
skipLocked == claimable \cap unlocked

\* ... ORDER BY priority DESC, added_at ASC LIMIT 1 FOR UPDATE SKIP LOCKED
lockNext ==
    IF skipLocked = {} THEN NULL
    ELSE Some(CHOOSE u \in skipLocked : \A v \in skipLocked : queueBefore(u, v))

\* A row lock released at commit.
release(url) == [u \in DOMAIN rowLocks \ {url} |-> rowLocks[u]]

\* addToQueue of a URL the table does not have: the INSERT.
AddToQueueInserts(url, priority) ==
    /\ url \notin DOMAIN linkedin_scrape_queue
    /\ addToQueue(url, priority)

\* addToQueue of a URL the table has: ON CONFLICT (linkedin_url) finds the row
\* and locks it, waiting while another statement holds it.
AddToQueueLocks(url, priority) ==
    /\ url \in unlocked
    /\ rowLocks' = rowLocks @@
           (url :> [statement |-> "addToQueue", worker |-> NULL,
                    priority |-> Some(priority)])
    /\ UNCHANGED <<stores, now, ret, linkedin_scrape_queue, workers>>

\* ... DO UPDATE SET priority = GREATEST(...), and the commit.
AddToQueueCommits(url) ==
    /\ url \in DOMAIN rowLocks
    /\ rowLocks[url].statement = "addToQueue"
    /\ linkedin_scrape_queue' =
           [linkedin_scrape_queue EXCEPT
               ![url].priority = greatest(@, Val(rowLocks[url].priority))]
    /\ rowLocks' = release(url)
    /\ UNCHANGED <<stores, now, ret, workers>>

\* The row a process's getNextInQueue holds, if any.
heldBy(w) ==
    {u \in DOMAIN rowLocks : rowLocks[u].statement = "getNextInQueue"
                                /\ rowLocks[u].worker = Some(w)}

\* getNextInQueue: the subselect finds the row to claim and locks it.
GetNextInQueueLocks(w) ==
    /\ workers[w] = NULL
    /\ heldBy(w) = {}
    /\ lockNext # NULL
    /\ rowLocks' = rowLocks @@
           (Val(lockNext) :> [statement |-> "getNextInQueue", worker |-> Some(w),
                              priority |-> NULL])
    /\ UNCHANGED <<stores, now, ret, linkedin_scrape_queue, workers>>

\* getNextInQueue: the UPDATE of the row found, RETURNING *, and the commit.
GetNextInQueueCommits(w) ==
    /\ \E url \in heldBy(w) :
          LET attempts == linkedin_scrape_queue[url].attempts + 1
          IN  /\ linkedin_scrape_queue' =
                     [linkedin_scrape_queue EXCEPT ![url].status = "processing",
                                                   ![url].attempts = attempts]
              /\ workers' = [workers EXCEPT
                                ![w] = Some([linkedin_url |-> url,
                                             attempts |-> attempts])]
              /\ rowLocks' = release(url)
    /\ UNCHANGED <<stores, now, ret>>

\* updateQueueStatus waits for the lock of its row.
mayUpdate(w) ==
    /\ workers[w] # NULL
    /\ Val(workers[w]).linkedin_url \in unlocked

InitClaims ==
    /\ contacts = {}
    /\ EmptyStore

NextClaims ==
    \/ /\ \E u \in QueueUrls, p \in QueuePriorities : AddToQueueInserts(u, p)
       /\ UNCHANGED <<callVars, breakerVars, scrapeVars, jobVars>>
    \/ /\ \E u \in QueueUrls, p \in QueuePriorities : AddToQueueLocks(u, p)
       /\ UNCHANGED <<callVars, breakerVars, scrapeVars, jobVars>>
    \/ /\ \E u \in QueueUrls : AddToQueueCommits(u)
       /\ UNCHANGED <<callVars, breakerVars, scrapeVars, jobVars>>
    \/ /\ \E w \in Workers :
             /\ lockNext # NULL
             /\ linkedin_scrape_queue[Val(lockNext)].attempts < MaxAttempts
             /\ GetNextInQueueLocks(w)
       /\ UNCHANGED <<callVars, breakerVars, scrapeVars, jobVars>>
    \/ /\ \E w \in Workers : GetNextInQueueCommits(w)
       /\ UNCHANGED <<callVars, breakerVars, scrapeVars, jobVars>>
    \/ /\ \E w \in Workers : mayUpdate(w) /\ ProfileScraped(w, 1)
       /\ UNCHANGED <<callVars, breakerVars, scrapeVars, jobVars>>
    \/ /\ \E w \in Workers, rateLimited \in BOOLEAN :
             mayUpdate(w) /\ ProfileFailed(w, rateLimited)
       /\ UNCHANGED <<callVars, breakerVars, scrapeVars, jobVars>>

SpecClaims == InitClaims /\ [][NextClaims]_vars

\* The rows a getNextInQueue of some process holds.
beingClaimed ==
    {u \in DOMAIN rowLocks : rowLocks[u].statement = "getNextInQueue"}

\* No two processes have the same queue item.
NoDoubleClaim ==
    \A w1, w2 \in Workers :
        (w1 # w2 /\ workers[w1] # NULL /\ workers[w2] # NULL)
            => Val(workers[w1]).linkedin_url # Val(workers[w2]).linkedin_url

\* A step moves at most one item to processing, from pending or rate_limited,
\* and gives it to exactly one process that had none.
ClaimIsAtomic ==
    LET claimed == {u \in DOMAIN linkedin_scrape_queue :
                       linkedin_scrape_queue[u].status # "processing"
                           /\ linkedin_scrape_queue'[u].status = "processing"}
    IN  /\ Cardinality(claimed) <= 1
        /\ \A u \in claimed :
              /\ linkedin_scrape_queue[u].status \in {"pending", "rate_limited"}
              /\ Cardinality({w \in Workers :
                                 /\ workers[w] = NULL
                                 /\ workers'[w] # NULL
                                 /\ Val(workers'[w]).linkedin_url = u}) = 1

\* The item a process picks is first, by priority and then added_at, among the
\* claimable items no other process is claiming.
ClaimsInOrder ==
    \A u \in beingClaimed' \ beingClaimed :
        \A v \in claimable \ beingClaimed : queueBefore(u, v)

\* A URL has one row for good, and its priority never falls.
ReAddKeepsRow ==
    \A u \in DOMAIN linkedin_scrape_queue :
        /\ u \in DOMAIN linkedin_scrape_queue'
        /\ linkedin_scrape_queue'[u].priority >= linkedin_scrape_queue[u].priority
        /\ linkedin_scrape_queue'[u].added_at = linkedin_scrape_queue[u].added_at

\* C29: two processes never hold the same queue item; a claim moves one item
\* from pending or rate_limited to processing in one step; the item a process
\* picks is the claimable one of highest priority and then earliest added_at;
\* and adding a queued URL again leaves its one row and never lowers its
\* priority.
C29_ClaimsAreExclusiveAndOrdered ==
    /\ []NoDoubleClaim
    /\ [][ClaimIsAtomic]_vars
    /\ [][ClaimsInOrder]_vars
    /\ [][ReAddKeepsRow]_vars

(***************************************************************************)
(* api/routes/research.js: POST /api/research and performResearch, with    *)
(* db/queries.js: researchJobQueries.  performResearch runs in the         *)
(* background of the request that started it; each await is a step.  Its   *)
(* LinkedIn collector scrapes through the shared FirecrawlClient, whose    *)
(* limiter other callers use as well.                                      *)
(***************************************************************************)

\* The ids the SERIAL column gives the jobs.
ResearchJobs == {1}

\* INSERT INTO research_jobs (contact_id, status) VALUES ($1, 'pending')
createJob(contactId) ==
    [contact_id |-> contactId, status |-> "pending", error_message |-> NULL,
     results_summary |-> NULL]

\* UPDATE research_jobs SET status = $2, error_message = $3,
\* results_summary = $4 WHERE id = $1
updateJobStatus(jobId, status, error, results) ==
    [research_jobs EXCEPT ![jobId].status = status,
                          ![jobId].error_message = error,
                          ![jobId].results_summary = results]

\* const results = {linkedin: {found: false}, github: {found: false},
\* podcasts: {found: false}, jobs: {analyzed: 0}}
newResults ==
    [linkedin |-> FALSE, github |-> FALSE, podcasts |-> FALSE, jobs |-> 0,
     playbook_generated |-> NULL]

\* What the collectors of a job find, when they find something.
researchProfile == [current_position_tenure_months |-> Some(5)]
researchActivity == [activity_score |-> 61]
researchSignals == {s \in CollectedSignals : s.signal_type = "company_tech_stack"}

\* performResearch of the job is at the given await.
at(job, await) == job \in DOMAIN performing /\ performing[job].at = await

\* performResearch goes on to its next await.
goesTo(job, await) == [performing EXCEPT ![job].at = await]

\* POST /api/research: the contact is upserted, the job created, and
\* performResearch started in the background.
PostResearch(company_domain) ==
    LET job == Cardinality(DOMAIN research_jobs) + 1
    IN  /\ job \in ResearchJobs
        /\ upsertContact(1)
        /\ research_jobs' = research_jobs @@ (job :> createJob(1))
        /\ performing' = performing @@
               (job :> [at |-> "updateJobStatus", caller |-> 0,
                        company_domain |-> company_domain, results |-> newResults])

\* await researchJobQueries.updateJobStatus(jobId, 'processing'); the query may
\* be rejected, and then the catch block runs.
StartsProcessing(job, rejected) ==
    /\ at(job, "updateJobStatus")
    /\ IF rejected
       THEN /\ performing' = goesTo(job, "catch")
            /\ UNCHANGED research_jobs
       ELSE /\ research_jobs' = updateJobStatus(job, "processing", NULL, NULL)
            /\ performing' = goesTo(job, "scrapeProfile")
    /\ UNCHANGED <<stores, now, ret>>

\* linkedinAnalyzer.researchContact: scrapeProfile and then scrapeRecentPosts
\* call scrapeUrl(url, options, 'linkedin'), which awaits limiter.acquire().
LinkedInScrapes(job) ==
    /\ at(job, "scrapeProfile") \/ at(job, "scrapeRecentPosts")
    /\ ScrapeUrlAcquire
    /\ performing' = [performing EXCEPT ![job].caller = arrived + 1,
                                        ![job].at = IF at(job, "scrapeProfile")
                                                    THEN "acquire (profile)"
                                                    ELSE "acquire (posts)"]
    /\ UNCHANGED research_jobs

\* The caller's acquire() and sleep are over and its request was sent.
sent(caller) ==
    /\ ~queued(caller)
    /\ \A k \in 1..Len(timeouts) : timeouts[k].caller # caller

\* The scrape request of the job is answered.
ScrapeAnswered(job) ==
    /\ at(job, "acquire (profile)") \/ at(job, "acquire (posts)")
    /\ sent(performing[job].caller)
    /\ performing' = goesTo(job, IF at(job, "acquire (profile)")
                                 THEN "scrapeRecentPosts" ELSE "saveProfileData")
    /\ UNCHANGED <<stores, now, ret, research_jobs>>

\* linkedinAnalyzer.researchContact saves what it scraped and returns
\* success:true, or a query of it is rejected and it returns success:false.
LinkedInResearched(job, found) ==
    /\ at(job, "saveProfileData")
    /\ IF found THEN saveProfile(1, researchProfile)
       ELSE UNCHANGED <<stores, now, ret>>
    /\ performing' = [performing EXCEPT ![job].results.linkedin = found,
                                        ![job].at = "github"]
    /\ UNCHANGED research_jobs

\* githubAnalyzer.researchContact returns success:true, with the activity saved,
\* or success:false.
GithubResearched(job, found) ==
    /\ at(job, "github")
    /\ IF found THEN saveActivity(1, researchActivity)
       ELSE UNCHANGED <<stores, now, ret>>
    /\ performing' = [performing EXCEPT ![job].results.github = found,
                                        ![job].at = "podcasts"]
    /\ UNCHANGED research_jobs

\* podcastFinder.researchContact returns success:true or success:false;
\* jobParser.researchCompany is called only if the request had a company_domain.
PodcastsResearched(job, found) ==
    /\ at(job, "podcasts")
    /\ performing' = [performing EXCEPT ![job].results.podcasts = found,
                                        ![job].at = IF performing[job].company_domain
                                                    THEN "jobs" ELSE "generatePlaybook"]
    /\ UNCHANGED <<stores, now, ret, research_jobs>>

\* jobParser.researchCompany returns the postings it analyzed, with their
\* signals created, or none.
JobsResearched(job, analyzed) ==
    /\ at(job, "jobs")
    /\ IF analyzed THEN \E s \in researchSignals : createSignal(1, s)
       ELSE UNCHANGED <<stores, now, ret>>
    /\ performing' = [performing EXCEPT ![job].results.jobs = IF analyzed THEN 1 ELSE 0,
                                        ![job].at = "generatePlaybook"]
    /\ UNCHANGED research_jobs

\* playbookGenerated = playbookResult.success, false if the call throws
playbookGenerated(out) == ~out.threw /\ out.success

\* await playbookGenerator.generatePlaybook(contactId)
PlaybookGenerated(job) ==
    /\ at(job, "generatePlaybook")
    /\ GeneratePlaybook(1, {})
    /\ performing' = [performing EXCEPT
                         ![job].results.playbook_generated =
                             Some(playbookGenerated(ret'.out)),
                         ![job].at = "completed"]
    /\ UNCHANGED research_jobs

\* await researchJobQueries.updateJobStatus(jobId, 'completed', null, results)
Completes(job, rejected) ==
    /\ at(job, "completed")
    /\ IF rejected
       THEN /\ performing' = goesTo(job, "catch")
            /\ UNCHANGED research_jobs
       ELSE /\ research_jobs' = updateJobStatus(job, "completed", NULL,
                                                Some(performing[job].results))
            /\ performing' = goesTo(job, "returned")
    /\ UNCHANGED <<stores, now, ret>>

\* catch (error): await researchJobQueries.updateJobStatus(jobId, 'failed',
\* error.message); if this query is rejected too, performResearch rejects and
\* the request's .catch logs it.
Catches(job, rejected) ==
    /\ at(job, "catch")
    /\ IF rejected
       THEN /\ performing' = goesTo(job, "rejected")
            /\ UNCHANGED research_jobs
       ELSE /\ research_jobs' = updateJobStatus(job, "failed", Some(queryError), NULL)
            /\ performing' = goesTo(job, "returned")
    /\ UNCHANGED <<stores, now, ret>>

InitResearch ==
    /\ contacts = {}
    /\ EmptyStore

\* One await of the job's performResearch settles.
PerformResearch(job) ==
    \/ /\ \E rejected \in BOOLEAN : StartsProcessing(job, rejected)
       /\ UNCHANGED <<callVars, queueVars, breakerVars, scrapeVars>>
    \/ /\ LinkedInScrapes(job)
       /\ UNCHANGED <<callVars, queueVars, breakerVars>>
    \/ /\ ScrapeAnswered(job)
       /\ UNCHANGED <<callVars, queueVars, breakerVars, scrapeVars>>
    \/ /\ \E found \in BOOLEAN : LinkedInResearched(job, found)
       /\ UNCHANGED <<callVars, queueVars, breakerVars, scrapeVars>>
    \/ /\ \E found \in BOOLEAN : GithubResearched(job, found)
       /\ UNCHANGED <<callVars, queueVars, breakerVars, scrapeVars>>
    \/ /\ \E found \in BOOLEAN : PodcastsResearched(job, found)
       /\ UNCHANGED <<callVars, queueVars, breakerVars, scrapeVars>>
    \/ /\ \E analyzed \in BOOLEAN : JobsResearched(job, analyzed)
       /\ UNCHANGED <<callVars, queueVars, breakerVars, scrapeVars>>
    \/ /\ PlaybookGenerated(job)
       /\ UNCHANGED <<callVars, queueVars, breakerVars, scrapeVars>>
    \/ /\ \E rejected \in BOOLEAN : Completes(job, rejected)
       /\ UNCHANGED <<callVars, queueVars, breakerVars, scrapeVars>>
    \/ /\ \E rejected \in BOOLEAN : Catches(job, rejected)
       /\ UNCHANGED <<callVars, queueVars, breakerVars, scrapeVars>>

NextResearch ==
    \/ /\ \E company_domain \in BOOLEAN : PostResearch(company_domain)
       /\ UNCHANGED <<callVars, queueVars, breakerVars, scrapeVars>>
    \/ \E job \in ResearchJobs : PerformResearch(job)
    \/ /\ arrived < MaxCalls
       /\ elapsed = 0
       /\ ScrapeUrlAcquire
       /\ UNCHANGED <<callVars, queueVars, breakerVars, jobVars>>
    \/ /\ TimeoutFires
       /\ UNCHANGED <<callVars, queueVars, breakerVars, jobVars>>
    \/ /\ LimiterTick
       /\ UNCHANGED <<callVars, queueVars, breakerVars, jobVars>>

\* An await that can settle does; time passes and a timeout that is due runs;
\* nothing makes the other callers of the scraper call, and those that do call
\* at the start.
SpecResearch ==
    /\ InitResearch
    /\ [][NextResearch]_vars
    /\ \A job \in ResearchJobs : WF_vars(PerformResearch(job))
    /\ WF_vars(TimeoutFires /\ UNCHANGED <<callVars, queueVars, breakerVars, jobVars>>)
    /\ WF_vars(LimiterTick /\ UNCHANGED <<callVars, queueVars, breakerVars, jobVars>>)

\* The place of a status in pending -> processing -> completed or failed.
statusRank(status) ==
    IF status = "pending" THEN 0 ELSE IF status = "processing" THEN 1 ELSE 2

\* The job is completed or failed.
terminal(job) ==
    job \in DOMAIN research_jobs /\ research_jobs[job].status \in {"completed", "failed"}

\* C28: every research job that POST /api/research started is completed or
\* failed in the end; its status moves only forward along pending, processing,
\* completed or failed, becoming completed only from processing, and a
\* completed or failed job changes no more; a job whose collectors or playbook
\* generation fail is completed all the same once its last update is stored;
\* and playbook_generated of a completed job tells whether its generatePlaybook
\* call saved a playbook.
C28_JobReachesTerminalStatus ==
    /\ \A job \in ResearchJobs : (job \in DOMAIN research_jobs) ~> terminal(job)
    /\ [][\A job \in DOMAIN research_jobs :
              LET before == research_jobs[job]
                  after == research_jobs'[job]
              IN  /\ statusRank(after.status) >= statusRank(before.status)
                  /\ terminal(job) => after = before
                  /\ (after.status = "completed" /\ before.status # "completed")
                         => before.status = "processing"]_vars
    /\ [][\A job \in DOMAIN performing :
              /\ (at(job, "generatePlaybook") /\ ~at(job, "generatePlaybook")')
                     => performing'[job].results.playbook_generated
                            = Some(gtm_playbooks' # gtm_playbooks)
              /\ (at(job, "completed") /\ at(job, "returned")')
                     => /\ research_jobs'[job].status = "completed"
                        /\ research_jobs'[job].results_summary
                               = Some(performing[job].results)]_vars

====
